---------------------------- MODULE Spec2Model ----------------------------
(***************************************************************************)
(* Market-data caching and time-windowing pipeline of the NASDAQ ticker:   *)
(* the rate limiter of the quote services, the Supabase fetch-through      *)
(* cache, the downsampling tick of the simulated feed and the quote        *)
(* refresh loop of the useStockData hook.                                  *)
(*                                                                         *)
(* Each component has its own specification over the shared variables:     *)
(*   SpecLimiter  checkRateLimit (services/alphaVantage.ts, finnhub.ts)    *)
(*   SpecCache    getCachedData, setCachedData, getOrFetchData             *)
(*   SpecSeries   the 3-second tick of the simulated feed (part_005)       *)
(*   SpecLoop     the quote refresh loop (hooks/useStockData.ts)           *)
(*   SpecMemo     fetchWithCache with its checkRateLimit (alphaVantage.ts) *)
(*   SpecTable    the rows of the cache table (supabaseCache.ts, schema)   *)
(*   SpecPass     one updateQuotes() with its awaits (useStockData.ts)     *)
(* SpecRefresh is SpecLoop with a first updateQuotes() under way,          *)
(* SpecSeriesFull is SpecSeries with the tick buffer full,                 *)
(* SpecCacheDegraded is SpecCache with the store missing or unreachable,   *)
(* SpecCacheStale is SpecCache with an expired row left in the table,      *)
(* SpecLimiterFair is SpecLimiter with its timers firing, SpecLimiterBusy  *)
(* is SpecLimiter started with its window used up.                         *)
(* Time is in milliseconds, counted from the load of the module.           *)
(***************************************************************************)
EXTENDS Integers, Sequences, FiniteSets, TLC

VARIABLES
    now,              \* Date.now(), ms since module load
    ticks,            \* number of free clock steps taken (bounded)
    \* ---- rate limiter (alphaVantage.ts:15-19, finnhub.ts:13-17)
    requestCount,     \* let requestCount
    lastRequestTime,  \* let lastRequestTime
    rlPc,             \* caller -> "idle" | "waiting" (suspended in the await)
    rlNow,            \* suspended caller -> the `now` its call read at entry
    rlWait,           \* suspended caller -> the waitTime its call computed
    rlLog,            \* completed calls, in order: [called, granted, waited]
    rlCalls,          \* number of calls started (bounded)
    \* ---- Supabase cache (supabaseCache.ts, supabase-schema.sql)
    client,           \* getSupabaseClient() returns a client (credentials set)
    storeUp,          \* the queries of the client reach the store
    rows,             \* stock_historical_cache: key -> row, or NoRow
    proc,             \* process -> the cache call it is in
    lastCall,         \* the cache call the last step completed, if any
    writtenAt,        \* key -> when its row was last upserted, < 0 without row
    noData,           \* key -> how the last fetch-through ended without data
    fetchedAt,        \* key -> when a fetch-through last stored its result; -1 if never
    cacheOps,         \* number of cache calls started (bounded)
    \* ---- simulated feed of one stock (unnamed/part_005)
    simMounted,       \* the effect has run: stocks and the interval are set
    simPrice,         \* stock.price
    realtimeData,     \* realtimeDataStore.get(stock.symbol)
    priceHistory,     \* stock.priceHistory: period -> points
    simTicks,         \* number of interval callbacks run (bounded)
    \* ---- quote refresh loop (hooks/useStockData.ts, App.tsx)
    selectedSymbols,  \* App: useState(DEFAULT_SELECTED_SYMBOLS)
    stocks,           \* useState<Stock[]>([]): [symbol, price, priceHistory] in order
    loading,          \* useState(true)
    error,            \* useState<string | null>(null)
    closureStocks,    \* the `stocks` the callbacks of the running effect see
    effects,          \* the runs of the effect: selectedSymbols, isMounted,
                      \* and whether its initializeStocks() has not ended
    running,          \* the hook is mounted: the last effect is not cleaned up
    loads,            \* number of background history results handled (bounded)
    passes,           \* the updateQuotes() calls in flight
    lastStep,         \* the quote a step just handled in a pass, if any
    loopTicks,        \* number of quoteInterval callbacks run (bounded)
    toggles,          \* number of handleToggleStock calls (bounded)
    \* ---- in-memory cache of a service (alphaVantage.ts:12, finnhub.ts:10)
    cache,            \* const cache = new Map(): cacheKey -> entry, or NoEntry
    memoProc,         \* caller -> the fetchWithCache call it is in
    memoLast,         \* the fetchWithCache call the last step completed, if any
    memoOps,          \* number of fetchWithCache calls started (bounded)
    \* ---- the table stock_historical_cache as the database holds it
    table,            \* the set of its rows
    rowsIssued,       \* number of ids gen_random_uuid() has given
    tableProc,        \* process -> the getOrFetchData call it is in
    tableLast,        \* the write the last step made, if any
    tableOps,         \* number of calls started (bounded)
    \* ---- one updateQuotes() of useStockData.ts with its awaits
    quotePass,        \* where the running updateQuotes() is
    quoteLog          \* the fetchStockQuote calls of that updateQuotes()

cacheVars == <<client, storeUp, rows, proc, lastCall, writtenAt, noData, fetchedAt,
              cacheOps>>
limVars == <<requestCount, lastRequestTime, rlPc, rlNow, rlWait, rlLog, rlCalls>>
seriesVars == <<simMounted, simPrice, realtimeData, priceHistory, simTicks>>
loopVars == <<selectedSymbols, stocks, loading, error, closureStocks, effects, running,
              loads, passes, lastStep, loopTicks, toggles>>
memoVars == <<cache, memoProc, memoLast, memoOps>>
tableVars == <<table, rowsIssued, tableProc, tableLast, tableOps>>
passVars == <<quotePass, quoteLog>>
vars == <<now, ticks, limVars, cacheVars, seriesVars, loopVars, memoVars, tableVars,
          passVars>>

----------------------------------------------------------------------------
(* Bounds of the model *)

NumCallers == 2
MaxCalls == 6
MaxTicks == 2
NumProcs == 2
MaxOps == 3
MaxSimTicks == 62
FreeTicks == 1
MaxLoopTicks == 1
MaxToggles == 1
MaxPasses == 2
MaxMemoOps == 2
MaxLoads == 1
MaxTableOps == 3
MaxQuotePasses == 1

(* Program constants *)

MAX_REQUESTS_PER_MINUTE == 5
MINUTE_MS == 60000
REALTIME_UPDATE_INTERVAL == 3000
MAX_REALTIME_POINTS == 28800
QUOTE_UPDATE_INTERVAL == 30000
CACHE_DURATION == 60000

Callers == 1..NumCallers
LimiterSteps == {1, 20000, MINUTE_MS}

Min(S) == CHOOSE x \in S : \A y \in S : x <= y
Max(S) == CHOOSE x \in S : \A y \in S : x >= y

----------------------------------------------------------------------------
(* Rate limiter: checkRateLimit *)

\* A check that never takes the window to be over
WindowOverNever(t, last) == FALSE

\* `if (now - lastRequestTime > MINUTE_MS)`: the window is over
WindowOver(t, last) == t - last > MINUTE_MS

\* `const waitTime = MINUTE_MS - (now - lastRequestTime)`
WaitTime(t, last) == MINUTE_MS - (t - last)

\* `if (requestCount >= MAX_REQUESTS_PER_MINUTE)`: the caller must wait
LimitReached(count) == count >= MAX_REQUESTS_PER_MINUTE

InitLimiter ==
    /\ requestCount = 0
    /\ lastRequestTime = 0
    /\ rlPc = [c \in Callers |-> "idle"]
    /\ rlNow = [c \in Callers |-> 0]
    /\ rlWait = [c \in Callers |-> 0]
    /\ rlLog = <<>>
    /\ rlCalls = 0

\* A call of checkRateLimit, from its entry to its return or to its await.
CheckRateLimit(c) ==
    /\ rlPc[c] = "idle"
    /\ rlCalls < MaxCalls
    /\ rlCalls' = rlCalls + 1
    /\ LET over  == WindowOver(now, lastRequestTime)
           count == IF over THEN 0 ELSE requestCount
           last  == IF over THEN now ELSE lastRequestTime
       IN  IF LimitReached(count)
           THEN /\ rlPc' = [rlPc EXCEPT ![c] = "waiting"]
                /\ rlNow' = [rlNow EXCEPT ![c] = now]
                /\ rlWait' = [rlWait EXCEPT ![c] = WaitTime(now, last)]
                /\ requestCount' = count
                /\ lastRequestTime' = last
                /\ UNCHANGED rlLog
           ELSE /\ requestCount' = count + 1
                /\ lastRequestTime' = last
                /\ rlLog' = Append(rlLog, [called |-> now, granted |-> now, waited |-> FALSE,
                                        opened |-> over])
                /\ UNCHANGED <<rlPc, rlNow, rlWait>>
    /\ UNCHANGED <<passVars, tableVars, now, ticks, cacheVars, seriesVars, loopVars>>

\* A resumed call that tests the limit again without resetting the counter.
CheckRateLimitResumeRecheck(c) ==
    /\ rlPc[c] = "waiting"
    /\ now >= rlNow[c] + rlWait[c]
    /\ IF LimitReached(requestCount)
       THEN /\ rlNow' = [rlNow EXCEPT ![c] = now]
            /\ rlWait' = [rlWait EXCEPT ![c] = WaitTime(now, lastRequestTime)]
            /\ UNCHANGED <<requestCount, lastRequestTime, rlPc, rlLog>>
       ELSE /\ requestCount' = requestCount + 1
            /\ rlPc' = [rlPc EXCEPT ![c] = "idle"]
            /\ rlNow' = [rlNow EXCEPT ![c] = 0]
            /\ rlWait' = [rlWait EXCEPT ![c] = 0]
            /\ rlLog' = Append(rlLog, [called |-> rlNow[c], granted |-> now, waited |-> TRUE,
                                        opened |-> FALSE])
            /\ UNCHANGED lastRequestTime
    /\ UNCHANGED <<passVars, tableVars, now, ticks, rlCalls, cacheVars, seriesVars, loopVars>>

\* The timer of a suspended call fires (at its due time or later) and the
\* call runs to its return: reset, then requestCount++.
CheckRateLimitResume(c) ==
    /\ rlPc[c] = "waiting"
    /\ now >= rlNow[c] + rlWait[c]
    /\ requestCount' = 0 + 1
    /\ lastRequestTime' = now
    /\ rlPc' = [rlPc EXCEPT ![c] = "idle"]
    /\ rlNow' = [rlNow EXCEPT ![c] = 0]
    /\ rlWait' = [rlWait EXCEPT ![c] = 0]
    /\ rlLog' = Append(rlLog, [called |-> rlNow[c], granted |-> now, waited |-> TRUE,
                               opened |-> TRUE])
    /\ UNCHANGED <<passVars, tableVars, now, ticks, rlCalls, cacheVars, seriesVars, loopVars>>

\* The clock moves on by one of the steps.
LimiterTick(d) ==
    /\ ticks < MaxTicks
    /\ ticks' = ticks + 1
    /\ now' = now + d
    /\ UNCHANGED <<passVars, tableVars, limVars, cacheVars, seriesVars, loopVars, memoVars>>

\* The clock reaches the due time of the next pending timer.
LimiterTimerDue ==
    LET due == {rlNow[c] + rlWait[c] : c \in {x \in Callers : rlPc[x] = "waiting"}}
    IN  /\ due # {}
        /\ Min(due) > now
        /\ now' = Min(due)
        /\ UNCHANGED <<passVars, tableVars, ticks, limVars, cacheVars, seriesVars, loopVars, memoVars>>

----------------------------------------------------------------------------
(* Supabase cache: services/supabaseCache.ts *)

Symbols == {"AAPL", "GOOGL"}
TimePeriods == {"15min", "1h", "1d", "5d", "1m", "3m", "6m", "1y"}

\* A table with the TTLs of 1h and 1d exchanged.
CacheTtlExchanged ==
    [p \in TimePeriods |->
        CASE p = "15min" -> 15 * 60 * 1000
          [] p = "1h"    -> 60 * 60 * 1000
          [] p = "1d"    -> 30 * 60 * 1000
          [] p = "5d"    -> 2 * 60 * 60 * 1000
          [] p = "1m"    -> 6 * 60 * 60 * 1000
          [] p = "3m"    -> 12 * 60 * 60 * 1000
          [] p = "6m"    -> 24 * 60 * 60 * 1000
          [] p = "1y"    -> 7 * 24 * 60 * 60 * 1000]

\* `const CACHE_TTL: Record<TimePeriod, number>`
CACHE_TTL ==
    [p \in TimePeriods |->
        CASE p = "15min" -> 15 * 60 * 1000
          [] p = "1h"    -> 30 * 60 * 1000
          [] p = "1d"    -> 60 * 60 * 1000
          [] p = "5d"    -> 2 * 60 * 60 * 1000
          [] p = "1m"    -> 6 * 60 * 60 * 1000
          [] p = "3m"    -> 12 * 60 * 60 * 1000
          [] p = "6m"    -> 24 * 60 * 60 * 1000
          [] p = "1y"    -> 7 * 24 * 60 * 60 * 1000]

\* The keys of the table, and those the calls of SpecCache are made with
Keys == {<<"AAPL", "15min">>, <<"AAPL", "1h">>, <<"GOOGL", "1h">>}
CallKeys == {<<"AAPL", "15min">>, <<"GOOGL", "1h">>}
DegradedKeys == {<<"AAPL", "15min">>}
CacheSteps == {1, CACHE_TTL["15min"]}
Procs == 1..NumProcs

\* PricePoint { timestamp, price }
Pt(t, v) == [timestamp |-> t, price |-> v]
SeriesA == <<Pt(1000, 100)>>
SeriesB == <<Pt(1000, 101), Pt(2000, 102)>>
\* The point sequences setCachedData is called with
PointSeqs == {<< >>, SeriesA}
\* The point sequences fetchFn resolves with
FetchedSeqs == {<< >>, SeriesB}

\* What a call hands back: data, null (a miss), or a rejected promise
Data(d) == [tag |-> "data", data |-> d]
Null == [tag |-> "null", data |-> << >>]
Rejected == [tag |-> "rejected", data |-> << >>]
\* What fetchFn() resolves with, or Rejected when it throws
FetchOutcomes == {Data(d) : d \in FetchedSeqs} \cup {Rejected}

NoRow == [present |-> FALSE]

\* The JSON the client sends for PricePoint[] and jsonb stores: an array of
\* objects, each object a set of <<key, value>> members
ToJson(points) ==
    [i \in 1..Len(points) |->
        {<<"timestamp", points[i].timestamp>>, <<"price", points[i].price>>}]
Member(obj, key) == (CHOOSE m \in obj : m[1] = key)[2]
\* `data.data as PricePoint[]`: the parsed JSON read as points
FromJson(json) ==
    [i \in 1..Len(json) |-> Pt(Member(json[i], "timestamp"), Member(json[i], "price"))]

\* Date.toISOString(), to the millisecond, and new Date(string).getTime()
ToISOString(t) == [s |-> t \div 1000, ms |-> t % 1000]
ParseDate(iso) == iso.s * 1000 + iso.ms

\* `const client = getSupabaseClient(); if (!client) ...`
HasClient == client

\* An upsert that gives every period the expiry of "1h".
UpsertFixedTtl(tbl, k, data, t) ==
    LET expiresAt == t + CACHE_TTL["1h"]
    IN  [tbl EXCEPT ![k] = [present |-> TRUE, data |-> ToJson(data),
                            created_at |-> t, updated_at |-> t,
                            expires_at |-> ToISOString(expiresAt)]]

\* The upsert of setCachedData: `INSERT ... ON CONFLICT (symbol, period) DO
\* UPDATE` of the columns sent (symbol, period, data, expires_at); created_at
\* and updated_at get their DEFAULT NOW() on insert only.
Upsert(tbl, k, data, t) ==
    LET expiresAt == t + CACHE_TTL[k[2]]
    IN  IF tbl[k] = NoRow
        THEN [tbl EXCEPT ![k] = [present |-> TRUE, data |-> ToJson(data),
                                 created_at |-> t, updated_at |-> t,
                                 expires_at |-> ToISOString(expiresAt)]]
        ELSE [tbl EXCEPT ![k] = [@ EXCEPT !.data = ToJson(data),
                                          !.expires_at = ToISOString(expiresAt)]]

\* setCachedData(symbol, period, data): the table it leaves
SetCachedDataRows(tbl, k, data, t) ==
    IF ~HasClient \/ Len(data) = 0 THEN tbl
    ELSE IF ~storeUp THEN tbl
    ELSE Upsert(tbl, k, data, t)

\* A select that answers from the table whether the store is reachable or not.
SelectRowAnyway(tbl, k, t) ==
    IF ~HasClient \/ tbl[k] = NoRow THEN [kind |-> "miss", data |-> << >>]
    ELSE IF ParseDate(tbl[k].expires_at) < t THEN [kind |-> "expired", data |-> << >>]
    ELSE [kind |-> "found", data |-> FromJson(tbl[k].data)]

\* The select of getCachedData and what follows it up to the next await:
\* "miss" (no client, error or no row), "expired" (the delete is awaited
\* next) or "found" with the row's data.
SelectRow(tbl, k, t) ==
    IF ~HasClient \/ ~storeUp \/ tbl[k] = NoRow THEN [kind |-> "miss", data |-> << >>]
    ELSE IF ParseDate(tbl[k].expires_at) < t THEN [kind |-> "expired", data |-> << >>]
    ELSE [kind |-> "found", data |-> FromJson(tbl[k].data)]

\* deleteCachedData(symbol, period): the table it leaves
DeleteCachedDataRows(tbl, k) ==
    IF ~HasClient \/ ~storeUp THEN tbl ELSE [tbl EXCEPT ![k] = NoRow]

\* A hit test that wants more than one point.
IsHitLong(sel) == sel.kind = "found" /\ Len(sel.data) > 1

\* getOrFetchData: `if (cachedData && cachedData.length > 0)`
IsHit(sel) == sel.kind = "found" /\ Len(sel.data) > 0

\* getOrFetchData: `if (freshData.length > 0)`
ShouldCache(fresh) == Len(fresh) > 0

\* A process that is in no cache call
Idle == [op |-> "none", pc |-> "idle", key |-> <<"AAPL", "15min">>,
         fresh |-> << >>, clean |-> FALSE]

\* The record of the call a step completes: its operation, key and argument
\* (the data of a set, what fetchFn gave to a fetch-through), what it
\* returned, and whether it was a cache hit
Done(op, k, arg, result, hit) ==
    [op |-> op, key |-> k, arg |-> arg, result |-> result, hit |-> hit]
NoCall == Done("none", <<"AAPL", "15min">>, << >>, Null, FALSE)

\* An empty table, and no call made yet
InitCacheCalls ==
    /\ rows = [k \in Keys |-> NoRow]
    /\ proc = [p \in Procs |-> Idle]
    /\ lastCall = NoCall
    /\ writtenAt = [k \in Keys |-> -1]
    /\ noData = [k \in Keys |-> "none"]
    /\ fetchedAt = [k \in Keys |-> -1]
    /\ cacheOps = 0

InitCache ==
    /\ client = TRUE
    /\ storeUp = TRUE
    /\ InitCacheCalls

\* The key whose row an earlier session left in the table, and that row:
\* written CACHE_TTL and a millisecond before this session began
StaleKey == <<"AAPL", "15min">>
StaleRowAt(t) ==
    [present |-> TRUE, data |-> ToJson(SeriesA), created_at |-> t, updated_at |-> t,
     expires_at |-> ToISOString(t + CACHE_TTL[StaleKey[2]])]

\* The table holds the expired row of an earlier session
InitCacheStale ==
    /\ client = TRUE
    /\ storeUp = TRUE
    /\ rows = [k \in Keys |-> IF k = StaleKey THEN StaleRowAt(0 - CACHE_TTL[k[2]] - 1)
                               ELSE NoRow]
    /\ proc = [p \in Procs |-> Idle]
    /\ lastCall = NoCall
    /\ writtenAt = [k \in Keys |-> IF k = StaleKey THEN 0 - CACHE_TTL[k[2]] - 1 ELSE -1]
    /\ noData = [k \in Keys |-> "none"]
    /\ fetchedAt = [k \in Keys |-> -1]
    /\ cacheOps = 0

\* The credentials are set or not; with them, the store is reachable or not
InitCacheDegraded ==
    /\ client \in BOOLEAN
    /\ storeUp \in BOOLEAN
    /\ ~client => ~storeUp
    /\ InitCacheCalls

\* A new call runs in the first free process
CanStart(p) ==
    /\ proc[p].pc = "idle"
    /\ \A q \in Procs : q < p => proc[q].pc # "idle"
    /\ cacheOps < MaxOps

\* After a step that leaves table tbl: the calls in flight on a key whose row
\* was upserted are no longer alone with the row they read
Touched(pr, tbl) ==
    [q \in Procs |->
        IF tbl[pr[q].key] # rows[pr[q].key] /\ tbl[pr[q].key] # NoRow
        THEN [pr[q] EXCEPT !.clean = FALSE] ELSE pr[q]]

\* After a step that leaves table tbl: when each row was last upserted; -1
\* for a key never written, -2 for a key whose row was deleted
Written(tbl) ==
    [k \in Keys |-> IF tbl[k] = NoRow
                    THEN (IF rows[k] # NoRow THEN -2 ELSE writtenAt[k])
                    ELSE IF tbl[k] # rows[k] THEN now ELSE writtenAt[k]]

\* After a step that leaves table tbl: an upsert ends the noData of its key
StillNoData(tbl) ==
    [k \in Keys |-> IF tbl[k] # rows[k] /\ tbl[k] # NoRow THEN "none" ELSE noData[k]]

\* getOrFetchData(symbol, period, fetchFn): entry, `await getCachedData`
\* up to the result of its select; on a hit, `return cachedData`.
GetOrFetchSelect(p, k) ==
    /\ CanStart(p)
    /\ cacheOps' = cacheOps + 1
    /\ LET sel == SelectRow(rows, k, now)
           call == [Idle EXCEPT !.op = "getOrFetch", !.key = k, !.clean = TRUE]
       IN  IF sel.kind = "expired"
           THEN /\ proc' = [proc EXCEPT ![p] = [call EXCEPT !.pc = "delete"]]
                /\ lastCall' = NoCall
           ELSE IF IsHit(sel)
           THEN /\ lastCall' = Done("getOrFetch", k, << >>, Data(sel.data), TRUE)
                /\ UNCHANGED proc
           ELSE /\ proc' = [proc EXCEPT ![p] = [call EXCEPT !.pc = "fetch"]]
                /\ lastCall' = NoCall
    /\ UNCHANGED <<passVars, tableVars, now, ticks, limVars, seriesVars, loopVars, memoVars, client, storeUp, rows, writtenAt, noData, fetchedAt>>

\* getCachedData within getOrFetchData: `await deleteCachedData(...)` of
\* the expired row, `return null`, then "Cache MISS".
GetOrFetchDelete(p) ==
    /\ proc[p].op = "getOrFetch" /\ proc[p].pc = "delete"
    /\ rows' = DeleteCachedDataRows(rows, proc[p].key)
    /\ proc' = [proc EXCEPT ![p].pc = "fetch"]
    /\ lastCall' = NoCall
    /\ writtenAt' = Written(rows')
    /\ UNCHANGED <<passVars, tableVars, now, ticks, limVars, seriesVars, loopVars, memoVars, client, storeUp, noData, fetchedAt, cacheOps>>

\* A fetch-through that, when fetchFn throws, stores and returns a fallback.
GetOrFetchFetchFallback(p, r) ==
    /\ proc[p].op = "getOrFetch" /\ proc[p].pc = "fetch"
    /\ IF r = Rejected
       THEN /\ rows' = Upsert(rows, proc[p].key, SeriesA, now)
            /\ proc' = [Touched(proc, rows') EXCEPT ![p] = Idle]
            /\ lastCall' = Done("getOrFetch", proc[p].key, << >>, Data(SeriesA), FALSE)
            /\ noData' = StillNoData(rows')
       ELSE /\ proc' = [proc EXCEPT ![p].pc = "fetched", ![p].fresh = r.data]
            /\ lastCall' = NoCall
            /\ UNCHANGED <<noData, rows>>
    /\ writtenAt' = Written(rows')
    /\ UNCHANGED fetchedAt
    /\ UNCHANGED <<passVars, tableVars, now, ticks, limVars, seriesVars, loopVars, memoVars, client, storeUp, cacheOps>>

\* `const freshData = await fetchFn()`: fetchFn resolves with r, or throws
\* and getOrFetchData rejects.
GetOrFetchFetch(p, r) ==
    /\ proc[p].op = "getOrFetch" /\ proc[p].pc = "fetch"
    /\ IF r = Rejected
       THEN /\ proc' = [proc EXCEPT ![p] = Idle]
            /\ lastCall' = Done("getOrFetch", proc[p].key, << >>, Rejected, FALSE)
            /\ noData' = [noData EXCEPT ![proc[p].key] =
                            IF proc[p].clean THEN "failed" ELSE @]
       ELSE /\ proc' = [proc EXCEPT ![p].pc = "fetched", ![p].fresh = r.data]
            /\ lastCall' = NoCall
            /\ UNCHANGED noData
    /\ UNCHANGED <<passVars, tableVars, now, ticks, limVars, seriesVars, loopVars, memoVars, client, storeUp, rows, writtenAt, fetchedAt, cacheOps>>

\* A fetch-through that writes whatever fetchFn gave, empty or not.
GetOrFetchStoreUnguarded(p) ==
    /\ proc[p].op = "getOrFetch" /\ proc[p].pc = "fetched"
    /\ LET k == proc[p].key
           fresh == proc[p].fresh
       IN  /\ rows' = Upsert(rows, k, fresh, now)
           /\ proc' = [Touched(proc, rows') EXCEPT ![p] = Idle]
           /\ noData' = StillNoData(rows')
           /\ lastCall' = Done("getOrFetch", k, fresh, Data(fresh), FALSE)
           /\ fetchedAt' = [fetchedAt EXCEPT ![k] = now]
    /\ writtenAt' = Written(rows')
    /\ UNCHANGED <<passVars, tableVars, now, ticks, limVars, seriesVars, loopVars, memoVars, client, storeUp, cacheOps>>

\* `if (freshData.length > 0) await setCachedData(...)`; `return freshData`.
GetOrFetchStore(p) ==
    /\ proc[p].op = "getOrFetch" /\ proc[p].pc = "fetched"
    /\ LET k == proc[p].key
           fresh == proc[p].fresh
       IN  /\ rows' = IF ShouldCache(fresh) THEN SetCachedDataRows(rows, k, fresh, now)
                      ELSE rows
           /\ proc' = [Touched(proc, rows') EXCEPT ![p] = Idle]
           /\ noData' = IF ~ShouldCache(fresh) /\ proc[p].clean
                        THEN [noData EXCEPT ![k] = "empty"]
                        ELSE StillNoData(rows')
           /\ lastCall' = Done("getOrFetch", k, fresh, Data(fresh), FALSE)
           /\ fetchedAt' = IF ShouldCache(fresh) /\ HasClient /\ storeUp
                           THEN [fetchedAt EXCEPT ![k] = now]
                           ELSE fetchedAt
    /\ writtenAt' = Written(rows')
    /\ UNCHANGED <<passVars, tableVars, now, ticks, limVars, seriesVars, loopVars, memoVars, client, storeUp, cacheOps>>

\* getCachedData(symbol, period), called on its own: entry up to the result
\* of its select.
GetCachedData(p, k) ==
    /\ CanStart(p)
    /\ cacheOps' = cacheOps + 1
    /\ LET sel == SelectRow(rows, k, now)
       IN  IF sel.kind = "expired"
           THEN /\ proc' = [proc EXCEPT ![p] = [Idle EXCEPT !.op = "get", !.key = k,
                                                            !.pc = "delete"]]
                /\ lastCall' = NoCall
           ELSE /\ lastCall' = IF sel.kind = "found"
                               THEN Done("get", k, << >>, Data(sel.data), TRUE)
                               ELSE Done("get", k, << >>, Null, FALSE)
                /\ UNCHANGED proc
    /\ UNCHANGED <<passVars, tableVars, now, ticks, limVars, seriesVars, loopVars, memoVars, client, storeUp, rows, writtenAt, noData, fetchedAt>>

\* A read that returns null for an expired row and leaves the row.
GetCachedDataKeepsStale(p) ==
    /\ proc[p].op = "get" /\ proc[p].pc = "delete"
    /\ proc' = [proc EXCEPT ![p] = Idle]
    /\ lastCall' = Done("get", proc[p].key, << >>, Null, FALSE)
    /\ UNCHANGED <<passVars, tableVars, now, ticks, limVars, seriesVars, loopVars, memoVars, client, storeUp, rows,
                   writtenAt, noData, fetchedAt, cacheOps>>

\* getCachedData: `await deleteCachedData(symbol, period); return null`.
GetCachedDataDelete(p) ==
    /\ proc[p].op = "get" /\ proc[p].pc = "delete"
    /\ rows' = DeleteCachedDataRows(rows, proc[p].key)
    /\ proc' = [proc EXCEPT ![p] = Idle]
    /\ lastCall' = Done("get", proc[p].key, << >>, Null, FALSE)
    /\ writtenAt' = Written(rows')
    /\ UNCHANGED <<passVars, tableVars, now, ticks, limVars, seriesVars, loopVars, memoVars, client, storeUp, noData, fetchedAt, cacheOps>>

\* setCachedData(symbol, period, data), called on its own.
SetCachedData(p, k, data) ==
    /\ CanStart(p)
    /\ cacheOps' = cacheOps + 1
    /\ rows' = SetCachedDataRows(rows, k, data, now)
    /\ proc' = Touched(proc, rows')
    /\ noData' = StillNoData(rows')
    /\ writtenAt' = Written(rows')
    /\ lastCall' = Done("set", k, data, Null, FALSE)
    /\ UNCHANGED <<passVars, tableVars, now, ticks, limVars, seriesVars, loopVars, memoVars, client, storeUp,
                   fetchedAt>>

\* The store becomes unreachable (its queries give an error or throw), or
\* reachable again.
StoreChanges ==
    /\ client
    /\ storeUp' = ~storeUp
    /\ lastCall' = NoCall
    /\ UNCHANGED <<passVars, tableVars, now, ticks, limVars, seriesVars, loopVars, memoVars, client, rows, proc,
                   writtenAt, noData, fetchedAt, cacheOps>>

CacheTick(d) ==
    /\ ticks < MaxTicks
    /\ ticks' = ticks + 1
    /\ now' = now + d
    /\ lastCall' = NoCall
    /\ UNCHANGED <<passVars, tableVars, limVars, seriesVars, loopVars, memoVars, client, storeUp, rows, proc, writtenAt, noData, fetchedAt, cacheOps>>

----------------------------------------------------------------------------
(* The simulated feed: useStockData of unnamed/part_005 *)

\* `const PERIOD_CONFIGS`
PERIOD_CONFIGS ==
    [p \in TimePeriods |->
        CASE p = "15min" -> [minutes |-> 15,    intervalMs |-> 15000,    maxPoints |-> 60]
          [] p = "1h"    -> [minutes |-> 60,    intervalMs |-> 60000,    maxPoints |-> 60]
          [] p = "1d"    -> [minutes |-> 390,   intervalMs |-> 60000,    maxPoints |-> 390]
          [] p = "5d"    -> [minutes |-> 1950,  intervalMs |-> 300000,   maxPoints |-> 390]
          [] p = "1m"    -> [minutes |-> 7800,  intervalMs |-> 3600000,  maxPoints |-> 130]
          [] p = "3m"    -> [minutes |-> 23400, intervalMs |-> 7200000,  maxPoints |-> 270]
          [] p = "6m"    -> [minutes |-> 46800, intervalMs |-> 86400000, maxPoints |-> 180]
          [] p = "1y"    -> [minutes |-> 93600, intervalMs |-> 86400000, maxPoints |-> 365]]

\* The periods whose series the model keeps: those whose span in
\* milliseconds fits the integers of the model checker
SeriesPeriods == {"15min", "1h", "1d", "1m"}

\* AvailableStock.initialPrice of the one stock
InitialPrice == 100

\* What the timer and the random numbers give to one run of the interval
\* callback: the time since the last run, the time that goes by before
\* downsampleData reads the clock, and the price change
NominalTick == [gap |-> REALTIME_UPDATE_INTERVAL, lag |-> 0, change |-> 1]
TickKinds ==
    {NominalTick,
     [gap |-> 1, lag |-> 1, change |-> -1],
     [gap |-> REALTIME_UPDATE_INTERVAL + 1, lag |-> 1, change |-> 1],
     [gap |-> 60000, lag |-> 0, change |-> -1]}

\* A trim that keeps the first n entries
SliceFirst(s, n) == IF Len(s) <= n THEN s ELSE SubSeq(s, 1, n)

\* Array.slice(-n)
SliceLast(s, n) == IF Len(s) <= n THEN s ELSE SubSeq(s, Len(s) - n + 1, Len(s))

\* `.filter(p => p.timestamp >= since)`
FilterSince(s, since) == SelectSeq(s, LAMBDA p : p.timestamp >= since)

\* generateOptimizedHistoricalData(basePrice) at time t, for one period; the
\* random walk of the prices is taken at basePrice
GenerateHistory(basePrice, period, t) ==
    LET config == PERIOD_CONFIGS[period]
    IN  [j \in 1..config.maxPoints |->
            Pt(t - (config.maxPoints - (j - 1)) * config.intervalMs, basePrice)]

\* A downsampleData that takes the first point of a bucket
DownsampleDataFirst(data, config, t) ==
    IF Len(data) = 0 THEN << >>
    ELSE
        LET periodStartTime == t - config.maxPoints * config.intervalMs
            BucketPoints(i) ==
                LET bucketStartTime == periodStartTime + i * config.intervalMs
                    bucketEndTime == bucketStartTime + config.intervalMs
                IN  SelectSeq(data, LAMBDA p : /\ p.timestamp >= bucketStartTime
                                               /\ p.timestamp < bucketEndTime)
            filled == {i \in 0..(config.maxPoints - 1) : Len(BucketPoints(i)) > 0}
            Before(i) == {j \in filled : j < i}
        IN  [r \in 1..Cardinality(filled) |->
                LET i == CHOOSE i \in filled : Cardinality(Before(i)) = r - 1
                    bucketPoints == BucketPoints(i)
                IN  bucketPoints[1]]

\* downsampleData(realtimeData, config), its `Date.now()` giving t
DownsampleData(data, config, t) ==
    IF Len(data) = 0 THEN << >>
    ELSE
        LET periodStartTime == t - config.maxPoints * config.intervalMs
            BucketPoints(i) ==
                LET bucketStartTime == periodStartTime + i * config.intervalMs
                    bucketEndTime == bucketStartTime + config.intervalMs
                IN  SelectSeq(data, LAMBDA p : /\ p.timestamp >= bucketStartTime
                                               /\ p.timestamp < bucketEndTime)
            \* the buckets that hold points, and those of them below bucket i
            filled == {i \in 0..(config.maxPoints - 1) : Len(BucketPoints(i)) > 0}
            Before(i) == {j \in filled : j < i}
        IN  \* one point pushed for each bucket that holds points, in the
            \* order of the loop
            [r \in 1..Cardinality(filled) |->
                LET i == CHOOSE i \in filled : Cardinality(Before(i)) = r - 1
                    bucketPoints == BucketPoints(i)
                IN  bucketPoints[Len(bucketPoints)]]

\* `combined.forEach(p => uniqueMap.set(p.timestamp, p.price))` and
\* `Array.from(uniqueMap.entries())`: one entry for each timestamp, at the
\* place of its first insertion, with the price set last
UniqueEntries(combined) ==
    LET n == Len(combined)
        IsFirst(i) == \A j \in 1..(i - 1) : combined[j].timestamp # combined[i].timestamp
        firsts == SelectSeq([i \in 1..n |-> i], IsFirst)
        LastSet(i) == Max({j \in i..n : combined[j].timestamp = combined[i].timestamp})
    IN  [r \in 1..Len(firsts) |->
            Pt(combined[firsts[r]].timestamp, combined[LastSet(firsts[r])].price)]

\* `.sort((a, b) => a.timestamp - b.timestamp)`
SortByTimestamp(s) == SortSeq(s, LAMBDA a, b : a.timestamp < b.timestamp)

\* A merge that keeps every point of both lists.
MergeHistoryKeepAll(existing, downsampled, maxPoints) ==
    SliceLast(SortByTimestamp(existing \o downsampled), maxPoints)

\* The merge of a longer period: `combined`, `uniqueMap`, sort, slice
MergeHistory(existing, downsampled, maxPoints) ==
    SliceLast(SortByTimestamp(UniqueEntries(existing \o downsampled)), maxPoints)

\* The priceHistory the interval callback gives to the stock: data is the
\* realtimeData after the push, currentTime its `Date.now()`, t the time
\* downsampleData reads
UpdatedHistory(history, data, currentTime, t) ==
    [period \in SeriesPeriods |->
        LET config == PERIOD_CONFIGS[period]
            periodData == FilterSince(data, currentTime - config.minutes * 60 * 1000)
        IN  IF period = "15min" THEN SliceLast(periodData, config.maxPoints)
            ELSE IF period = "1h" THEN DownsampleData(periodData, config, t)
            ELSE IF Len(periodData) > 0
                 THEN LET downsampled == DownsampleData(periodData, config, t)
                      IN  IF Len(downsampled) > 0
                          THEN MergeHistory(history[period], downsampled,
                                            config.maxPoints)
                          ELSE history[period]
                 ELSE history[period]]

InitSeries ==
    /\ simMounted = FALSE
    /\ simPrice = 0
    /\ realtimeData = << >>
    /\ priceHistory = [period \in SeriesPeriods |-> << >>]
    /\ simTicks = 0

\* The time the machine was asleep, its timers suspended: six days
SleepMs == 518400000

\* The ticks of a feed that ran at its interval, without lag, for as many
\* runs as the buffer holds: the price went up and down by one
BufferedTicks ==
    [j \in 1..MAX_REALTIME_POINTS |->
        Pt(REALTIME_UPDATE_INTERVAL * j, InitialPrice + (j % 2))]

\* The feed after those runs and the sleep: the 15min and 1h series are
\* those of the last run; the series of the longer periods took up, run by
\* run, every tick but the last, and hold the most recent of them.
InitSeriesFull ==
    LET n == Len(BufferedTicks)
        last == BufferedTicks[n].timestamp
    IN  /\ simMounted = TRUE
        /\ simPrice = BufferedTicks[n].price
        /\ realtimeData = BufferedTicks
        /\ priceHistory =
              [period \in SeriesPeriods |->
                  LET config == PERIOD_CONFIGS[period]
                      periodData == FilterSince(SubSeq(BufferedTicks, n - 1200, n),
                                                last - config.minutes * 60 * 1000)
                  IN  IF period = "15min" THEN SliceLast(periodData, config.maxPoints)
                      ELSE IF period = "1h" THEN DownsampleData(periodData, config, last)
                      ELSE SubSeq(BufferedTicks, n - config.maxPoints, n - 1)]
        /\ simTicks = 0

\* The effect: initialStocks with generated histories, an empty
\* realtimeDataStore, setInterval.
SimMount(randomChange) ==
    /\ ~simMounted
    /\ simMounted' = TRUE
    /\ simPrice' = InitialPrice + randomChange
    /\ priceHistory' = [period \in SeriesPeriods |->
                            GenerateHistory(InitialPrice, period, now)]
    /\ realtimeData' = << >>
    /\ UNCHANGED <<passVars, tableVars, now, ticks, limVars, cacheVars, loopVars, memoVars, simTicks>>

\* One run of the interval callback, `kind.gap` after the last one (or
\* after the effect): the new price is pushed to realtimeData, which is
\* trimmed, and every period's history is rebuilt.
SimTick(kind) ==
    /\ simMounted
    /\ simTicks < MaxSimTicks
    /\ simTicks < FreeTicks \/ kind = NominalTick
    /\ simTicks' = simTicks + 1
    /\ LET currentTime == now + kind.gap
           newPrice == Max({1, simPrice + kind.change})
           pushed == Append(realtimeData, Pt(currentTime, newPrice))
           data == SliceLast(pushed, MAX_REALTIME_POINTS)
       IN  /\ now' = currentTime + kind.lag
           /\ simPrice' = newPrice
           /\ realtimeData' = data
           /\ priceHistory' = UpdatedHistory(priceHistory, data, currentTime, now')
    /\ UNCHANGED <<passVars, tableVars, ticks, limVars, cacheVars, loopVars, memoVars, simMounted>>

----------------------------------------------------------------------------
(* The quote refresh loop: useStockData of hooks/useStockData.ts *)

\* AVAILABLE_STOCKS and DEFAULT_SELECTED_SYMBOLS, three and two of them
AvailableSymbols == {"GOOGL", "AAPL"}
DefaultSelected == <<"GOOGL", "AAPL">>

\* quote.price of fetchQuote: at initialization, and at a refresh
FirstPrice == 100
QuotePrices == {101}
\* `volume: Math.floor(Math.random() * 100000000)` of fetchStockQuote, and
\* the largest `Math.floor(Math.random() * 1000000)` a refresh adds
FirstVolume == 50000000
MaxVolumeStep == 999999
\* What `await fetchQuote(symbol)` gives to fetchStockQuote, with the
\* random number the refresh draws for the volume
Threw == [ok |-> FALSE, price |-> 0, volumeStep |-> 0]
Quote(price, volumeStep) == [ok |-> TRUE, price |-> price, volumeStep |-> volumeStep]
QuoteOutcomes == {Threw} \cup {Quote(q, MaxVolumeStep) : q \in QuotePrices}

\* previousPrice and priceDirection of a Stock that has none yet
NoPrice == -1
NoDirection == "undefined"

\* The Stock fetchCompleteStockData(symbol) returns
NewStock(symbol) ==
    [symbol |-> symbol, price |-> FirstPrice, volume |-> FirstVolume,
     previousPrice |-> NoPrice, priceDirection |-> NoDirection, priceHistory |-> {}]

\* A comparison that takes an unchanged price for a rise
PriceDirectionAtLeast(newPrice, previousPrice) ==
    IF newPrice >= previousPrice THEN "up"
    ELSE IF newPrice < previousPrice THEN "down"
    ELSE "neutral"

\* `let priceDirection = 'neutral'; if (newPrice > previousPrice) ... 'up';
\* else if (newPrice < previousPrice) ... 'down'`
PriceDirection(newPrice, previousPrice) ==
    IF newPrice > previousPrice THEN "up"
    ELSE IF newPrice < previousPrice THEN "down"
    ELSE "neutral"

SymbolsOf(list) == [j \in 1..Len(list) |-> list[j].symbol]
Includes(list, symbol) == \E j \in 1..Len(list) : list[j] = symbol

\* `prev.includes(symbol) ? prev.filter(s => s !== symbol) : [...prev, symbol]`
Toggled(prev, symbol) ==
    IF Includes(prev, symbol)
    THEN SelectSeq(prev, LAMBDA x : x # symbol)
    ELSE Append(prev, symbol)

\* An updater that sets the volume to the number drawn, not adding it
WithQuoteNewVolume(prevStocks, symbol, quoteData) ==
    [j \in 1..Len(prevStocks) |->
        IF prevStocks[j].symbol = symbol
        THEN [prevStocks[j] EXCEPT
                 !.previousPrice = prevStocks[j].price,
                 !.price = quoteData.price,
                 !.volume = quoteData.volumeStep,
                 !.priceDirection = PriceDirection(quoteData.price, prevStocks[j].price)]
        ELSE prevStocks[j]]

\* `prevStocks.map(s => s.symbol === stock.symbol ? {...s, previousPrice,
\* price: newPrice, ..., volume: s.volume + Math.floor(Math.random() *
\* 1000000), priceDirection} : s)`
WithQuote(prevStocks, symbol, quoteData) ==
    [j \in 1..Len(prevStocks) |->
        IF prevStocks[j].symbol = symbol
        THEN [prevStocks[j] EXCEPT
                 !.previousPrice = prevStocks[j].price,
                 !.price = quoteData.price,
                 !.volume = prevStocks[j].volume + quoteData.volumeStep,
                 !.priceDirection = PriceDirection(quoteData.price, prevStocks[j].price)]
        ELSE prevStocks[j]]

NoStep == [kind |-> "none", pass |-> 0, position |-> 0, symbol |-> "",
           ok |-> FALSE, price |-> 0, isMounted |-> FALSE, failedBefore |-> {},
           loaded |-> {}]

\* `error`: null, or the message of the Error initializeStocks throws
NoError == "null"
NoneLoaded == "no stock could be loaded"

\* The periods fetchCompleteStockData leaves to its background timer, of
\* which the first and the last are followed
BackgroundPeriods == {"15min"}

\* A run of the effect: `let isMounted = true`, initializeStocks() called
Effect(selected) == [selected |-> selected, isMounted |-> TRUE, initPending |-> TRUE]

\* The cleanup of every effect that ran: `isMounted = false`
CleanedUp(effs) == [e \in 1..Len(effs) |-> [effs[e] EXCEPT !.isMounted = FALSE]]

\* `prevStocks.map(stock => stock.symbol === symbol ? {...stock,
\* priceHistory: updatedHistory} : stock)` with updatedHistory.set(period, history)
WithHistory(prevStocks, symbol, period) ==
    [j \in 1..Len(prevStocks) |->
        IF prevStocks[j].symbol = symbol
        THEN [prevStocks[j] EXCEPT !.priceHistory = @ \cup {period}]
        ELSE prevStocks[j]]

\* The first render, whose effect has run: initializeStocks() is under way
\* and quoteInterval is set; the callbacks of the effect see `stocks = []`.
InitLoop ==
    /\ selectedSymbols = DefaultSelected
    /\ stocks = << >>
    /\ loading = TRUE
    /\ error = NoError
    /\ closureStocks = << >>
    /\ effects = <<Effect(DefaultSelected)>>
    /\ running = TRUE
    /\ loads = 0
    /\ passes = << >>
    /\ lastStep = NoStep
    /\ loopTicks = 0
    /\ toggles = 0

\* What a step that ends initializeStocks() of effect e records: the
\* symbols of the effect that gave a stock
InitStep(e, loaded) ==
    [NoStep EXCEPT !.kind = "init", !.pass = e, !.isMounted = effects[e].isMounted,
                   !.loaded = {x \in loaded : Includes(effects[e].selected, x)}]

\* An initializeStocks() that throws its Error when any symbol gave no stock
InitializeStocksAllOrNothing(e, loaded) ==
    /\ e \in 1..Len(effects)
    /\ effects[e].initPending
    /\ effects' = [effects EXCEPT ![e].initPending = FALSE]
    /\ LET validSymbols == SelectSeq(effects[e].selected, LAMBDA x : x \in loaded)
           validStocks == [j \in 1..Len(validSymbols) |->
                             NewStock(validSymbols[j])]
       IN  IF ~effects[e].isMounted
           THEN UNCHANGED <<stocks, loading, error>>
           ELSE IF Len(validSymbols) < Len(effects[e].selected)
                THEN /\ error' = NoneLoaded
                     /\ loading' = FALSE
                     /\ UNCHANGED stocks
                ELSE /\ stocks' = validStocks
                     /\ loading' = FALSE
                     /\ UNCHANGED error
    /\ lastStep' = InitStep(e, loaded)
    /\ UNCHANGED <<passVars, tableVars, now, ticks, limVars, cacheVars, seriesVars, memoVars, selectedSymbols,
                   closureStocks, running, loads, passes, loopTicks, toggles>>

\* initializeStocks() of effect e ends: loaded is the set of symbols whose
\* fetchCompleteStockData gave a stock. With none loaded the Error is thrown
\* and caught; state is set only if the effect is still mounted.
InitializeStocks(e, loaded) ==
    /\ e \in 1..Len(effects)
    /\ effects[e].initPending
    /\ effects' = [effects EXCEPT ![e].initPending = FALSE]
    /\ LET validSymbols == SelectSeq(effects[e].selected, LAMBDA x : x \in loaded)
           validStocks == [j \in 1..Len(validSymbols) |->
                             NewStock(validSymbols[j])]
       IN  IF ~effects[e].isMounted
           THEN UNCHANGED <<stocks, loading, error>>
           ELSE IF Len(validSymbols) = 0
                THEN /\ error' = NoneLoaded
                     /\ loading' = FALSE
                     /\ UNCHANGED stocks
                ELSE /\ stocks' = validStocks
                     /\ loading' = FALSE
                     /\ UNCHANGED error
    /\ lastStep' = InitStep(e, loaded)
    /\ UNCHANGED <<passVars, tableVars, now, ticks, limVars, cacheVars, seriesVars, memoVars, selectedSymbols,
                   closureStocks, running, loads, passes, loopTicks, toggles>>

\* What a step of the background timer of effect e records: the setStocks
\* it called for the symbol, if `history.length > 0 && isMounted` held
HistoryStep(e, symbol, hasPoints) ==
    IF hasPoints /\ effects[e].isMounted
    THEN [NoStep EXCEPT !.kind = "history", !.pass = e, !.symbol = symbol]
    ELSE NoStep

\* The background timer of fetchCompleteStockData(symbol) in effect e has
\* the history of a period: it is set if it has points and the effect is
\* still mounted.
BackgroundHistory(e, symbol, period, hasPoints) ==
    /\ e \in 1..Len(effects)
    /\ Includes(effects[e].selected, symbol)
    /\ loads < MaxLoads
    /\ loads' = loads + 1
    /\ stocks' = IF hasPoints /\ effects[e].isMounted
                 THEN WithHistory(stocks, symbol, period)
                 ELSE stocks
    /\ lastStep' = HistoryStep(e, symbol, hasPoints)
    /\ UNCHANGED <<passVars, tableVars, now, ticks, limVars, cacheVars, seriesVars, memoVars, selectedSymbols,
                   loading, error, closureStocks, effects, running, passes, loopTicks,
                   toggles>>

\* handleToggleStock(symbol): selectedSymbols changes, the cleanup of the
\* effect runs (isMounted = false, clearInterval) and the effect runs again
\* in the new render, with the stocks of that render: setLoading(true),
\* setError(null), initializeStocks() and a new quoteInterval.
ToggleStock(symbol) ==
    /\ running
    /\ toggles < MaxToggles
    /\ toggles' = toggles + 1
    /\ selectedSymbols' = Toggled(selectedSymbols, symbol)
    /\ passes' = [i \in 1..Len(passes) |-> [passes[i] EXCEPT !.isMounted = FALSE]]
    /\ effects' = Append(CleanedUp(effects), Effect(Toggled(selectedSymbols, symbol)))
    /\ closureStocks' = stocks
    /\ loading' = TRUE
    /\ error' = NoError
    /\ lastStep' = NoStep
    /\ UNCHANGED <<passVars, tableVars, now, ticks, limVars, cacheVars, seriesVars, memoVars, stocks, running,
                   loads, loopTicks>>

\* A cleanup that clears the interval and leaves isMounted as it is
UnmountKeepsFlag ==
    /\ running
    /\ running' = FALSE
    /\ lastStep' = NoStep
    /\ UNCHANGED <<passVars, tableVars, now, ticks, limVars, cacheVars, seriesVars, memoVars, selectedSymbols,
                   stocks, loading, error, closureStocks, effects, passes, loads,
                   loopTicks, toggles>>

\* The component using the hook unmounts: the cleanup of the effect runs
\* (`isMounted = false; clearInterval(quoteInterval)`) and no effect runs
\* again.
Unmount ==
    /\ running
    /\ running' = FALSE
    /\ passes' = [i \in 1..Len(passes) |-> [passes[i] EXCEPT !.isMounted = FALSE]]
    /\ effects' = CleanedUp(effects)
    /\ lastStep' = NoStep
    /\ UNCHANGED <<passVars, tableVars, now, ticks, limVars, cacheVars, seriesVars, memoVars, selectedSymbols,
                   stocks, loading, error, closureStocks, loads, loopTicks, toggles>>

\* The quoteInterval callback: updateQuotes() up to its first await.
IntervalTick ==
    /\ running
    /\ loopTicks < MaxLoopTicks
    /\ Len(passes) < MaxPasses
    /\ loopTicks' = loopTicks + 1
    /\ passes' = IF Len(closureStocks) = 0 THEN passes
                 ELSE Append(passes, [list |-> SymbolsOf(closureStocks), position |-> 1,
                                      isMounted |-> TRUE, failed |-> {}])
    /\ lastStep' = NoStep
    /\ UNCHANGED <<passVars, tableVars, now, ticks, limVars, cacheVars, seriesVars, memoVars, selectedSymbols, stocks,
                   loading, error, closureStocks, effects, running, loads, toggles>>

\* The passes after pass i handled the symbol at its position
Advanced(i, threw) ==
    LET pass == passes[i]
    IN  IF pass.position = Len(pass.list)
        THEN [j \in 1..(Len(passes) - 1) |-> IF j < i THEN passes[j] ELSE passes[j + 1]]
        ELSE [passes EXCEPT ![i].position = @ + 1,
                            ![i].failed = IF threw THEN @ \cup {pass.list[pass.position]}
                                          ELSE @]

\* The passes after pass i ended where it was
Ended(i) == [j \in 1..(Len(passes) - 1) |-> IF j < i THEN passes[j] ELSE passes[j + 1]]

\* What a step of pass i records about the quote it handled
Step(i, outcome) ==
    [kind |-> "quote", pass |-> i, position |-> passes[i].position,
     symbol |-> passes[i].list[passes[i].position],
     ok |-> outcome.ok, price |-> outcome.price,
     isMounted |-> passes[i].isMounted, failedBefore |-> passes[i].failed,
     loaded |-> {}]

\* An updateQuotes whose fetchStockQuote lets the error of fetchQuote
\* through: the catch around the loop ends the pass.
QuoteStepUncaught(i, outcome) ==
    /\ i \in 1..Len(passes)
    /\ LET pass == passes[i]
           symbol == pass.list[pass.position]
       IN  /\ stocks' = IF outcome.ok /\ pass.isMounted
                         THEN WithQuote(stocks, symbol, outcome)
                         ELSE stocks
           /\ passes' = IF outcome.ok THEN Advanced(i, FALSE) ELSE Ended(i)
           /\ lastStep' = Step(i, outcome)
    /\ UNCHANGED <<passVars, tableVars, now, ticks, limVars, cacheVars, seriesVars, memoVars, selectedSymbols,
                   loading, error, closureStocks, effects, running, loads, loopTicks,
                   toggles>>

\* One turn of the loop of updateQuotes in pass i: fetchStockQuote gives the
\* quote or, the error caught, null; the quote is set if the effect is
\* still mounted; after the delay the loop goes to the next stock.
QuoteStep(i, outcome) ==
    /\ i \in 1..Len(passes)
    /\ LET pass == passes[i]
           symbol == pass.list[pass.position]
       IN  /\ stocks' = IF outcome.ok /\ pass.isMounted
                         THEN WithQuote(stocks, symbol, outcome)
                         ELSE stocks
           /\ passes' = Advanced(i, ~outcome.ok)
           /\ lastStep' = Step(i, outcome)
    /\ UNCHANGED <<passVars, tableVars, now, ticks, limVars, cacheVars, seriesVars, memoVars, selectedSymbols,
                   loading, error, closureStocks, effects, running, loads, loopTicks,
                   toggles>>

----------------------------------------------------------------------------
(* One updateQuotes() with its awaits: hooks/useStockData.ts *)

\* `await new Promise(resolve => setTimeout(resolve, 500))` of the loop
QuoteDelayMs == 500
\* How long a call of fetchStockQuote takes, what its quote.price is and
\* which random number the refresh draws for the volume
QuoteDurations == {0, 700}
RefreshPrices == {99, 100, 101}
VolumeSteps == {0, MaxVolumeStep}
RefreshOutcomes ==
    {Threw} \cup {Quote(q, v) : q \in RefreshPrices, v \in VolumeSteps}

NoPass == [phase |-> "none", list |-> << >>, position |-> 0, due |-> 0,
           effect |-> 0, started |-> 0]

\* A call of fetchStockQuote(symbol) that began at t, not yet back
CallStarted(symbol, t) ==
    [symbol |-> symbol, started |-> t, completed |-> -1, ok |-> FALSE,
     applied |-> FALSE, price |-> 0, volumeStep |-> 0]

InitQuotePass ==
    /\ quotePass = NoPass
    /\ quoteLog = << >>

\* The hook after handleToggleStock("AAPL") on its loaded default stocks:
\* the effect ran again in a render whose `stocks` are the loaded ones.
InitLoopRerun ==
    /\ selectedSymbols = Toggled(DefaultSelected, "AAPL")
    /\ stocks = [j \in 1..Len(DefaultSelected) |-> NewStock(DefaultSelected[j])]
    /\ loading = TRUE
    /\ error = NoError
    /\ closureStocks = [j \in 1..Len(DefaultSelected) |-> NewStock(DefaultSelected[j])]
    /\ effects = Append(CleanedUp(<<[Effect(DefaultSelected) EXCEPT !.initPending = FALSE]>>),
                        Effect(Toggled(DefaultSelected, "AAPL")))
    /\ running = TRUE
    /\ loads = 0
    /\ passes = << >>
    /\ lastStep = NoStep
    /\ loopTicks = 0
    /\ toggles = 1

\* The quoteInterval callback of the last effect: updateQuotes() up to its
\* first await, the call of fetchStockQuote for the first stock.
UpdateQuotes ==
    /\ running
    /\ quotePass.phase \in {"none", "done"}
    /\ quotePass.started < MaxQuotePasses
    /\ IF Len(closureStocks) = 0
       THEN /\ quotePass' = [NoPass EXCEPT !.phase = "done",
                                           !.started = quotePass.started + 1]
            /\ quoteLog' = << >>
       ELSE /\ quotePass' = [phase |-> "call", list |-> SymbolsOf(closureStocks),
                             position |-> 1, due |-> 0, effect |-> Len(effects),
                             started |-> quotePass.started + 1]
            /\ quoteLog' = <<CallStarted(closureStocks[1].symbol, now)>>
    /\ UNCHANGED <<now, ticks, limVars, cacheVars, seriesVars, loopVars, memoVars,
                   tableVars>>

\* `await fetchStockQuote(...)` is back after `took` ms with the quote or
\* null; `if (quoteData && isMounted) setStocks(...)`; the delay timer is set.
FetchStockQuoteReturns(outcome, took) ==
    /\ quotePass.phase = "call"
    /\ now' = now + took
    /\ LET symbol == quotePass.list[quotePass.position]
           applies == outcome.ok /\ effects[quotePass.effect].isMounted
       IN  /\ stocks' = IF applies THEN WithQuote(stocks, symbol, outcome) ELSE stocks
           /\ quoteLog' = [quoteLog EXCEPT ![Len(quoteLog)] =
                              [@ EXCEPT !.completed = now', !.ok = outcome.ok,
                                        !.applied = applies, !.price = outcome.price,
                                        !.volumeStep = outcome.volumeStep]]
           /\ quotePass' = [quotePass EXCEPT !.phase = "delay",
                                             !.due = now' + QuoteDelayMs]
    /\ UNCHANGED <<ticks, limVars, cacheVars, seriesVars, memoVars, tableVars,
                   selectedSymbols, loading, error, closureStocks, effects, running,
                   loads, passes, lastStep, loopTicks, toggles>>

\* A loop that goes to the next stock without waiting for the delay
DelaySkipped ==
    /\ quotePass.phase = "delay"
    /\ IF quotePass.position = Len(quotePass.list)
       THEN /\ quotePass' = [quotePass EXCEPT !.phase = "done"]
            /\ UNCHANGED quoteLog
       ELSE /\ quotePass' = [quotePass EXCEPT !.phase = "call",
                                             !.position = quotePass.position + 1]
            /\ quoteLog' = Append(quoteLog,
                                  CallStarted(quotePass.list[quotePass.position + 1], now))
    /\ UNCHANGED <<now, ticks, limVars, cacheVars, seriesVars, loopVars, memoVars,
                   tableVars>>

\* The delay timer fires when it is due: the loop goes to the next stock
\* and calls fetchStockQuote for it, or updateQuotes() ends.
DelayEnds ==
    /\ quotePass.phase = "delay"
    /\ now' = IF now < quotePass.due THEN quotePass.due ELSE now
    /\ IF quotePass.position = Len(quotePass.list)
       THEN /\ quotePass' = [quotePass EXCEPT !.phase = "done"]
            /\ UNCHANGED quoteLog
       ELSE /\ quotePass' = [quotePass EXCEPT !.phase = "call",
                                             !.position = quotePass.position + 1]
            /\ quoteLog' = Append(quoteLog,
                                  CallStarted(quotePass.list[quotePass.position + 1], now'))
    /\ UNCHANGED <<ticks, limVars, cacheVars, seriesVars, loopVars, memoVars,
                   tableVars>>

----------------------------------------------------------------------------
(* The in-memory cache of a service: fetchWithCache of alphaVantage.ts, *)
(* finnhub.ts *)

MemoKeys == {"quote_AAPL"}
\* What the upstream answers, and what `await fetchFn()` gives
UpstreamValues == {1, 2}
FetchFnThrew == [ok |-> FALSE, data |-> 0]
\* A 200 response whose json has no 'Error Message' and no 'Note' but lacks
\* 'Global Quote' / 'Time Series (...)': the fetchFn of alphaVantage.ts
\* returns it (`return json`).
NoDataJson == 3
FetchFnOutcomes == {FetchFnThrew} \cup {[ok |-> TRUE, data |-> v] : v \in UpstreamValues}
                   \cup {[ok |-> TRUE, data |-> NoDataJson]}
\* What fetchQuote / fetchIntraday make of the data fetchWithCache returned:
\* `data['Global Quote']` is read and `if (!timeSeries) throw new Error(...)`
RequestEnds(data) == IF data = NoDataJson THEN "error" ELSE "value"
MemoSteps == {CACHE_DURATION - 1, CACHE_DURATION}

NoEntry == [present |-> FALSE]
MemoIdle == [pc |-> "idle", key |-> "quote_AAPL"]
MemoNone == [kind |-> "none", caller |-> 0, key |-> "quote_AAPL", data |-> 0]
MemoDone(kind, c, key, data) == [kind |-> kind, caller |-> c, key |-> key, data |-> data]

\* A freshness test that still takes an entry as old as cacheDuration.
MemoFreshInclusive(entry, t) ==
    entry # NoEntry /\ t - entry.timestamp <= CACHE_DURATION

\* `cached && Date.now() - cached.timestamp < cacheDuration`
MemoFresh(entry, t) ==
    entry # NoEntry /\ t - entry.timestamp < CACHE_DURATION

InitMemo ==
    /\ cache = [key \in MemoKeys |-> NoEntry]
    /\ memoProc = [c \in Callers |-> MemoIdle]
    /\ memoLast = MemoNone
    /\ memoOps = 0

\* A fetchWithCache that on a miss calls fetchFn without checkRateLimit
FetchWithCacheNoLimit(c, key) ==
    /\ memoProc[c].pc = "idle"
    /\ memoOps < MaxMemoOps
    /\ memoOps' = memoOps + 1
    /\ IF MemoFresh(cache[key], now)
       THEN /\ memoLast' = MemoDone("hit", c, key, cache[key].data)
            /\ UNCHANGED memoProc
       ELSE /\ memoProc' = [memoProc EXCEPT ![c] = [pc |-> "fetch", key |-> key]]
            /\ memoLast' = MemoNone
    /\ UNCHANGED <<passVars, tableVars, now, ticks, limVars, cacheVars, seriesVars, loopVars, cache>>

\* fetchWithCache(cacheKey, fetchFn): entry up to `return cached.data` or to
\* `await checkRateLimit()`.
FetchWithCache(c, key) ==
    /\ memoProc[c].pc = "idle"
    /\ memoOps < MaxMemoOps
    /\ memoOps' = memoOps + 1
    /\ IF MemoFresh(cache[key], now)
       THEN /\ memoLast' = MemoDone("hit", c, key, cache[key].data)
            /\ UNCHANGED memoProc
       ELSE /\ memoProc' = [memoProc EXCEPT ![c] = [pc |-> "limit", key |-> key]]
            /\ memoLast' = MemoNone
    /\ UNCHANGED <<passVars, tableVars, now, ticks, limVars, cacheVars, seriesVars, loopVars, cache>>

\* `await checkRateLimit()`: the call of checkRateLimit, which returns or
\* is suspended.
FetchWithCacheLimit(c) ==
    /\ memoProc[c].pc = "limit"
    /\ CheckRateLimit(c)
    /\ memoProc' = [memoProc EXCEPT ![c].pc =
                        IF rlPc'[c] = "waiting" THEN "waiting" ELSE "fetch"]
    /\ memoLast' = MemoNone
    /\ UNCHANGED <<cache, memoOps>>

\* The suspended checkRateLimit returns.
FetchWithCacheResume(c) ==
    /\ memoProc[c].pc = "waiting"
    /\ CheckRateLimitResume(c)
    /\ memoProc' = [memoProc EXCEPT ![c].pc = "fetch"]
    /\ memoLast' = MemoNone
    /\ UNCHANGED <<cache, memoOps>>

\* A fetchWithCache that leaves an entry another call stored meanwhile
FetchWithCacheFetchKeepsFresh(c, outcome) ==
    /\ memoProc[c].pc = "fetch"
    /\ memoProc' = [memoProc EXCEPT ![c] = MemoIdle]
    /\ LET key == memoProc[c].key
       IN  IF outcome.ok
           THEN /\ cache' = IF MemoFresh(cache[key], now) THEN cache
                            ELSE [cache EXCEPT ![key] = [present |-> TRUE,
                                                        data |-> outcome.data,
                                                        timestamp |-> now]]
                /\ memoLast' = MemoDone("fetched", c, key, outcome.data)
           ELSE /\ memoLast' = MemoDone("rejected", c, key, 0)
                /\ UNCHANGED cache
    /\ UNCHANGED <<passVars, tableVars, now, ticks, limVars, cacheVars, seriesVars, loopVars, memoOps>>

\* `const data = await fetchFn()` ends: `cache.set(cacheKey, {data,
\* timestamp: Date.now()})` and `return data`, or the rejection goes to the
\* caller.
FetchWithCacheFetch(c, outcome) ==
    /\ memoProc[c].pc = "fetch"
    /\ memoProc' = [memoProc EXCEPT ![c] = MemoIdle]
    /\ LET key == memoProc[c].key
       IN  IF outcome.ok
           THEN /\ cache' = [cache EXCEPT ![key] = [present |-> TRUE, data |-> outcome.data,
                                                    timestamp |-> now]]
                /\ memoLast' = MemoDone("fetched", c, key, outcome.data)
           ELSE /\ memoLast' = MemoDone("rejected", c, key, 0)
                /\ UNCHANGED cache
    /\ UNCHANGED <<passVars, tableVars, now, ticks, limVars, cacheVars, seriesVars, loopVars, memoOps>>

MemoTick(d) ==
    /\ ticks < MaxTicks
    /\ ticks' = ticks + 1
    /\ now' = now + d
    /\ memoLast' = MemoNone
    /\ UNCHANGED <<passVars, tableVars, limVars, cacheVars, seriesVars, loopVars, cache, memoProc, memoOps>>

----------------------------------------------------------------------------
(* The rows of stock_historical_cache: supabaseCache.ts, supabase-schema.sql *)

\* The rows of key k
RowsOf(tbl, k) == {r \in tbl : r.key = k}

\* A row as the upsert of setCachedData at time t writes it
NewRow(id, k, data, t) ==
    [id |-> id, key |-> k, data |-> ToJson(data),
     expires_at |-> ToISOString(t + CACHE_TTL[k[2]])]

\* An insert that has no conflict target: a row is added whatever the
\* table holds.
TableInsert(tbl, k, data, t, id) == tbl \cup {NewRow(id, k, data, t)}

\* `.upsert(entry, {onConflict: 'symbol,period'})` on UNIQUE(symbol, period):
\* the row of the key is updated, or a row with a new id is inserted.
TableUpsert(tbl, k, data, t, id) ==
    IF RowsOf(tbl, k) = {}
    THEN tbl \cup {NewRow(id, k, data, t)}
    ELSE {IF r.key = k THEN [NewRow(id, k, data, t) EXCEPT !.id = r.id] ELSE r : r \in tbl}

\* A setCachedData that upserts whatever sequence it is given
TableSetCachedDataAny(tbl, k, data, t, id) ==
    IF ~HasClient THEN tbl ELSE TableUpsert(tbl, k, data, t, id)

\* setCachedData(symbol, period, data): the table it leaves
TableSetCachedData(tbl, k, data, t, id) ==
    IF ~HasClient \/ Len(data) = 0 THEN tbl ELSE TableUpsert(tbl, k, data, t, id)

\* The select of getCachedData with `.single()`: an error, and so a miss,
\* unless exactly one row matches
TableSelect(tbl, k, t) ==
    IF ~HasClient \/ Cardinality(RowsOf(tbl, k)) # 1 THEN "miss"
    ELSE LET row == CHOOSE r \in RowsOf(tbl, k) : TRUE
         IN  IF ParseDate(row.expires_at) < t THEN "expired"
             ELSE IF Len(FromJson(row.data)) > 0 THEN "hit" ELSE "miss"

\* A delete that spares the row of the key while it has not expired
TableDeleteExpired(tbl, k) ==
    IF ~HasClient THEN tbl
    ELSE tbl \ {r \in RowsOf(tbl, k) : ParseDate(r.expires_at) < now}

\* `.delete().eq('symbol', symbol).eq('period', period)`
TableDelete(tbl, k) == IF ~HasClient THEN tbl ELSE tbl \ RowsOf(tbl, k)

TableIdle == [pc |-> "idle", key |-> <<"AAPL", "15min">>]
NoWrite == [op |-> "none", key |-> <<"AAPL", "15min">>, replaced |-> FALSE]
Wrote(k) == [op |-> "set", key |-> k, replaced |-> RowsOf(table, k) # {}]
\* setCachedData that returned at `data.length === 0`
Skipped(k) == [op |-> "skip", key |-> k, replaced |-> FALSE]
Removed(op, k) == [op |-> op, key |-> k, replaced |-> FALSE]

InitTable ==
    /\ table = {}
    /\ rowsIssued = 0
    /\ tableProc = [p \in Procs |-> TableIdle]
    /\ tableLast = NoWrite
    /\ tableOps = 0

\* setCachedData(symbol, period, data), called on its own
WriteRow(k, data) ==
    /\ tableOps < MaxTableOps
    /\ tableOps' = tableOps + 1
    /\ table' = TableSetCachedData(table, k, data, now, rowsIssued + 1)
    /\ rowsIssued' = IF table' = table \/ RowsOf(table, k) # {} THEN rowsIssued
                     ELSE rowsIssued + 1
    /\ tableLast' = IF Len(data) = 0 THEN Skipped(k) ELSE Wrote(k)
    /\ UNCHANGED <<passVars, now, ticks, limVars, cacheVars, seriesVars, loopVars, memoVars, tableProc>>

\* deleteCachedData(symbol, period)
DeleteCachedData(k) ==
    /\ tableOps < MaxTableOps
    /\ tableOps' = tableOps + 1
    /\ table' = TableDelete(table, k)
    /\ tableLast' = Removed("delete", k)
    /\ UNCHANGED <<passVars, now, ticks, limVars, cacheVars, seriesVars, loopVars, memoVars, tableProc,
                   rowsIssued>>

\* clearSymbolCache(symbol): `.delete().eq('symbol', symbol)`
ClearSymbolCache(symbol) ==
    /\ tableOps < MaxTableOps
    /\ tableOps' = tableOps + 1
    /\ table' = IF ~HasClient THEN table ELSE {r \in table : r.key[1] # symbol}
    /\ tableLast' = Removed("clearSymbol", <<symbol, "15min">>)
    /\ UNCHANGED <<passVars, now, ticks, limVars, cacheVars, seriesVars, loopVars, memoVars, tableProc,
                   rowsIssued>>

\* A sweep that also removes the rows that expire at this very moment
ClearExpiredCacheInclusive ==
    /\ tableOps < MaxTableOps
    /\ tableOps' = tableOps + 1
    /\ table' = IF ~HasClient THEN table
                ELSE {r \in table :
                         ~(ParseDate(r.expires_at) <= ParseDate(ToISOString(now)))}
    /\ tableLast' = Removed("clearExpired", NoWrite.key)
    /\ UNCHANGED <<passVars, now, ticks, limVars, cacheVars, seriesVars, loopVars, memoVars, tableProc,
                   rowsIssued>>

\* clearExpiredCache(): `const now = new Date().toISOString()` and
\* `.delete().lt('expires_at', now)`
ClearExpiredCache ==
    /\ tableOps < MaxTableOps
    /\ tableOps' = tableOps + 1
    /\ table' = IF ~HasClient THEN table
                ELSE {r \in table :
                         ~(ParseDate(r.expires_at) < ParseDate(ToISOString(now)))}
    /\ tableLast' = Removed("clearExpired", NoWrite.key)
    /\ UNCHANGED <<passVars, now, ticks, limVars, cacheVars, seriesVars, loopVars, memoVars, tableProc,
                   rowsIssued>>

\* getOrFetchData(symbol, period, fetchFn) in process p: its getCachedData up
\* to the result of the select; a hit returns.
FetchThroughSelect(p, k) ==
    /\ tableProc[p].pc = "idle"
    /\ tableOps < MaxTableOps
    /\ tableOps' = tableOps + 1
    /\ LET sel == TableSelect(table, k, now)
       IN  tableProc' = [tableProc EXCEPT ![p] =
                            IF sel = "hit" THEN TableIdle
                            ELSE [pc |-> IF sel = "expired" THEN "delete" ELSE "fetch",
                                  key |-> k]]
    /\ tableLast' = NoWrite
    /\ UNCHANGED <<passVars, now, ticks, limVars, cacheVars, seriesVars, loopVars, memoVars, table,
                   rowsIssued>>

\* `await deleteCachedData(symbol, period)` of the getCachedData that found
\* the row expired
FetchThroughDelete(p) ==
    /\ tableProc[p].pc = "delete"
    /\ table' = TableDelete(table, tableProc[p].key)
    /\ tableProc' = [tableProc EXCEPT ![p].pc = "fetch"]
    /\ tableLast' = NoWrite
    /\ UNCHANGED <<passVars, now, ticks, limVars, cacheVars, seriesVars, loopVars, memoVars, rowsIssued,
                   tableOps>>

\* `await fetchFn()` ends, and with points `await setCachedData(...)`
FetchThroughStore(p, r) ==
    /\ tableProc[p].pc = "fetch"
    /\ tableProc' = [tableProc EXCEPT ![p] = TableIdle]
    /\ LET k == tableProc[p].key
       IN  /\ table' = IF r = Rejected THEN table
                        ELSE TableSetCachedData(table, k, r.data, now, rowsIssued + 1)
           /\ rowsIssued' = IF table' = table \/ RowsOf(table, k) # {} THEN rowsIssued
                            ELSE rowsIssued + 1
           /\ tableLast' = IF r = Rejected \/ Len(r.data) = 0 THEN NoWrite ELSE Wrote(k)
    /\ UNCHANGED <<passVars, now, ticks, limVars, cacheVars, seriesVars, loopVars, memoVars, tableOps>>

TableTick(d) ==
    /\ ticks < MaxTicks
    /\ ticks' = ticks + 1
    /\ now' = now + d
    /\ tableLast' = NoWrite
    /\ UNCHANGED <<passVars, limVars, cacheVars, seriesVars, loopVars, memoVars, table, rowsIssued,
                   tableProc, tableOps>>

Init ==
    /\ now = 0
    /\ ticks = 0
    /\ InitLimiter
    /\ InitCache
    /\ InitSeries
    /\ InitLoop
    /\ InitMemo
    /\ InitTable
    /\ InitQuotePass

NextLimiter ==
    \/ \E c \in Callers : CheckRateLimit(c) /\ UNCHANGED memoVars
    \/ \E c \in Callers : CheckRateLimitResume(c) /\ UNCHANGED memoVars
    \/ \E d \in LimiterSteps : LimiterTick(d)
    \/ LimiterTimerDue

NextCache ==
    \/ \E p \in Procs, k \in CallKeys : GetOrFetchSelect(p, k)
    \/ \E p \in Procs : GetOrFetchDelete(p)
    \/ \E p \in Procs, r \in FetchOutcomes : GetOrFetchFetch(p, r)
    \/ \E p \in Procs : GetOrFetchStore(p)
    \/ \E p \in Procs, k \in CallKeys : GetCachedData(p, k)
    \/ \E p \in Procs : GetCachedDataDelete(p)
    \/ \E p \in Procs, k \in CallKeys, d \in PointSeqs : SetCachedData(p, k, d)
    \/ \E d \in CacheSteps : CacheTick(d)

\* The store the calls work with
Degraded == ~client \/ ~storeUp

NextCacheDegraded ==
    \/ \E p \in Procs, k \in DegradedKeys : GetOrFetchSelect(p, k)
    \/ \E p \in Procs : GetOrFetchDelete(p)
    \/ \E p \in Procs, r \in FetchOutcomes : GetOrFetchFetch(p, r)
    \/ \E p \in Procs : GetOrFetchStore(p)
    \/ \E p \in Procs, k \in DegradedKeys : GetCachedData(p, k)
    \/ \E p \in Procs : GetCachedDataDelete(p)
    \/ \E p \in Procs, k \in DegradedKeys : SetCachedData(p, k, SeriesA)
    \/ \E d \in CacheSteps : CacheTick(d)
    \/ StoreChanges

NextMemo ==
    \/ \E c \in Callers, key \in MemoKeys : FetchWithCache(c, key)
    \/ \E c \in Callers : FetchWithCacheLimit(c)
    \/ \E c \in Callers : FetchWithCacheResume(c)
    \/ \E c \in Callers, outcome \in FetchFnOutcomes : FetchWithCacheFetch(c, outcome)
    \/ \E d \in MemoSteps : MemoTick(d)
    \/ LimiterTimerDue

NextTable ==
    \/ \E k \in Keys, data \in PointSeqs : WriteRow(k, data)
    \/ \E k \in Keys : DeleteCachedData(k)
    \/ \E symbol \in Symbols : ClearSymbolCache(symbol)
    \/ ClearExpiredCache
    \/ \E p \in Procs, k \in Keys : FetchThroughSelect(p, k)
    \/ \E p \in Procs : FetchThroughDelete(p)
    \/ \E p \in Procs, r \in FetchOutcomes : FetchThroughStore(p, r)
    \/ \E d \in CacheSteps : TableTick(d)

NextSeries ==
    \/ \E randomChange \in {-5, 5} : SimMount(randomChange)
    \/ \E kind \in TickKinds : SimTick(kind)

NextLoop ==
    \/ \E e \in 1..(MaxToggles + 1), loaded \in SUBSET AvailableSymbols :
           InitializeStocks(e, loaded)
    \/ \E e \in 1..(MaxToggles + 1), symbol \in AvailableSymbols,
           period \in BackgroundPeriods, hasPoints \in BOOLEAN :
           BackgroundHistory(e, symbol, period, hasPoints)
    \/ Unmount
    \/ \E symbol \in AvailableSymbols : ToggleStock(symbol)
    \/ IntervalTick
    \/ \E i \in 1..MaxPasses, outcome \in QuoteOutcomes : QuoteStep(i, outcome)

NextSeriesFull ==
    \E kind \in TickKinds : SimTick(kind)

NextPass ==
    \/ UpdateQuotes
    \/ \E outcome \in RefreshOutcomes, took \in QuoteDurations :
           FetchStockQuoteReturns(outcome, took)
    \/ DelayEnds
    \/ Unmount
    \/ \E e \in 1..(MaxToggles + 1), loaded \in SUBSET AvailableSymbols :
           InitializeStocks(e, loaded)

\* The hook that ran its effect again, one quote interval later
NextRefresh ==
    \/ IntervalTick
    \/ \E i \in 1..MaxPasses, outcome \in QuoteOutcomes : QuoteStep(i, outcome)
    \/ Unmount
    \/ \E e \in 1..(MaxToggles + 1), loaded \in SUBSET AvailableSymbols :
           InitializeStocks(e, loaded)

\* Every component together
Next ==
    \/ NextLimiter \/ NextCache \/ NextCacheDegraded \/ NextSeries \/ NextLoop
    \/ NextMemo \/ NextTable \/ NextPass \/ NextSeriesFull \/ NextRefresh

Spec == Init /\ [][Next]_vars

SpecLimiter == Init /\ [][NextLimiter]_vars

\* The cache with its store configured and reachable
SpecCache == Init /\ [][NextCache]_vars

\* The cache with a store that may be unconfigured, or unreachable at times
InitDegraded ==
    /\ now = 0
    /\ ticks = 0
    /\ InitLimiter
    /\ InitCacheDegraded
    /\ InitSeries
    /\ InitLoop
    /\ InitMemo
    /\ InitTable
    /\ InitQuotePass

SpecCacheDegraded == InitDegraded /\ [][NextCacheDegraded]_vars

\* A service that has granted no call yet, or as many as the window allows
\* in the millisecond it was loaded
InitService ==
    /\ now = 0
    /\ ticks = 0
    /\ requestCount \in {0, MAX_REQUESTS_PER_MINUTE}
    /\ lastRequestTime = 0
    /\ rlPc = [c \in Callers |-> "idle"]
    /\ rlNow = [c \in Callers |-> 0]
    /\ rlWait = [c \in Callers |-> 0]
    /\ rlLog = [i \in 1..requestCount |-> [called |-> 0, granted |-> 0, waited |-> FALSE,
                                           opened |-> FALSE]]
    /\ rlCalls = 0
    /\ InitCache
    /\ InitSeries
    /\ InitLoop
    /\ InitMemo
    /\ InitTable
    /\ InitQuotePass

SpecMemo == InitService /\ [][NextMemo]_vars

\* checkRateLimit of a service whose window has room or is used up
SpecLimiterBusy == InitService /\ [][NextLimiter]_vars

\* The cache calls of a session that finds an expired row in the table
InitStale ==
    /\ now = 0
    /\ ticks = 0
    /\ InitLimiter
    /\ InitCacheStale
    /\ InitSeries
    /\ InitLoop
    /\ InitMemo
    /\ InitTable
    /\ InitQuotePass

SpecCacheStale == InitStale /\ [][NextCache]_vars

\* The table under every call that changes it
SpecTable == Init /\ [][NextTable]_vars

\* The simulated feed of one stock
SpecSeries == Init /\ [][NextSeries]_vars

\* The quote refresh loop of the mounted hook
SpecLoop == Init /\ [][NextLoop]_vars

\* The simulated feed with its buffer full, back from a sleep
InitFull ==
    /\ now = REALTIME_UPDATE_INTERVAL * MAX_REALTIME_POINTS + SleepMs
    /\ ticks = 0
    /\ InitLimiter
    /\ InitCache
    /\ InitSeriesFull
    /\ InitLoop
    /\ InitMemo
    /\ InitTable
    /\ InitQuotePass

SpecSeriesFull == InitFull /\ [][NextSeriesFull]_vars

\* One updateQuotes() of the effect that ran again, step by step
InitPass ==
    /\ now = 0
    /\ ticks = 0
    /\ InitLimiter
    /\ InitCache
    /\ InitSeries
    /\ InitLoopRerun
    /\ InitMemo
    /\ InitTable
    /\ InitQuotePass

SpecPass == InitPass /\ [][NextPass]_vars

\* The hook after handleToggleStock("AAPL"), QUOTE_UPDATE_INTERVAL after its
\* effect ran again: the first callback of quoteInterval has called
\* updateQuotes(), which awaits the quote of its first stock.
InitLoopFirstPass ==
    /\ selectedSymbols = Toggled(DefaultSelected, "AAPL")
    /\ stocks = [j \in 1..Len(DefaultSelected) |-> NewStock(DefaultSelected[j])]
    /\ loading = TRUE
    /\ error = NoError
    /\ closureStocks = [j \in 1..Len(DefaultSelected) |-> NewStock(DefaultSelected[j])]
    /\ effects = Append(CleanedUp(<<[Effect(DefaultSelected) EXCEPT !.initPending = FALSE]>>),
                        Effect(Toggled(DefaultSelected, "AAPL")))
    /\ running = TRUE
    /\ loads = 0
    /\ passes = <<[list |-> SymbolsOf([j \in 1..Len(DefaultSelected) |->
                                          NewStock(DefaultSelected[j])]),
                   position |-> 1, isMounted |-> TRUE, failed |-> {}]>>
    /\ lastStep = NoStep
    /\ loopTicks = 0
    /\ toggles = 1

InitRefresh ==
    /\ now = QUOTE_UPDATE_INTERVAL
    /\ ticks = 0
    /\ InitLimiter
    /\ InitCache
    /\ InitSeries
    /\ InitLoopFirstPass
    /\ InitMemo
    /\ InitTable
    /\ InitQuotePass

SpecRefresh == InitRefresh /\ [][NextRefresh]_vars

\* The timers of the event loop fire: a due timer's callback runs, and the
\* clock reaches every due time.
SpecLimiterFair ==
    /\ SpecLimiter
    /\ \A c \in Callers : WF_vars(CheckRateLimitResume(c) /\ UNCHANGED memoVars)
    /\ WF_vars(LimiterTimerDue)

----------------------------------------------------------------------------
(* Properties of the rate limiter *)

\* The calls granted in the window of length MINUTE_MS that starts with grant i
GrantedInWindowFrom(i) ==
    {j \in 1..Len(rlLog) :
        /\ rlLog[j].granted >= rlLog[i].granted
        /\ rlLog[j].granted < rlLog[i].granted + MINUTE_MS}

\* C1: in every rolling window of length MINUTE_MS at most
\* MAX_REQUESTS_PER_MINUTE calls of checkRateLimit are granted.
C1_RollingWindowLimit ==
    \A i \in 1..Len(rlLog) :
        Cardinality(GrantedInWindowFrom(i)) <= MAX_REQUESTS_PER_MINUTE

\* C7: no call is dropped: the wait of a suspended call is between 0 and
\* MINUTE_MS, and every suspended call returns.
C7_EveryCallReturns ==
    /\ [](\A c \in Callers :
            rlPc[c] = "waiting" => rlWait[c] >= 0 /\ rlWait[c] <= MINUTE_MS)
    /\ \A c \in Callers : (rlPc[c] = "waiting") ~> (rlPc[c] = "idle")

\* C7 witness: a call that was suspended has returned.
C7_Witness ==
    \E i \in 1..Len(rlLog) :
        rlLog[i].waited /\ rlLog[i].granted > rlLog[i].called

\* C8: the first MAX_REQUESTS_PER_MINUTE calls return at once, and the next
\* call, made before a window has gone by since the first one, is suspended
\* and returns no earlier than the time of the first call plus MINUTE_MS.
C8_NextCallWaitsForFirst ==
    Len(rlLog) > MAX_REQUESTS_PER_MINUTE =>
        /\ \A i \in 1..MAX_REQUESTS_PER_MINUTE : rlLog[i].granted = rlLog[i].called
        /\ LET first == rlLog[1]
               next  == rlLog[MAX_REQUESTS_PER_MINUTE + 1]
           IN  next.called < first.called + MINUTE_MS =>
                   /\ next.waited
                   /\ next.granted >= first.called + MINUTE_MS

\* The grants that set lastRequestTime to the value it has: the first of
\* them began the current window
Openers == {i \in 1..Len(rlLog) : rlLog[i].opened /\ rlLog[i].granted = lastRequestTime}

\* The calls granted since the current window began
GrantedSinceWindowStart ==
    {i \in 1..Len(rlLog) :
        /\ rlLog[i].granted >= lastRequestTime
        /\ (Openers = {} \/ \E j \in Openers : j <= i)}

\* C20: under every interleaving of calls, suspended calls that resume
\* together included, the number of calls granted since the start of the
\* current window (lastRequestTime) is at most MAX_REQUESTS_PER_MINUTE.
C20_WindowCapacityKept ==
    Cardinality(GrantedSinceWindowStart) <= MAX_REQUESTS_PER_MINUTE

\* C35: requestCount is always between 0 and MAX_REQUESTS_PER_MINUTE, and
\* the waitTime of every suspended call is between 0 and MINUTE_MS.
C35_CountAndWaitInRange ==
    /\ requestCount \in 0..MAX_REQUESTS_PER_MINUTE
    /\ \A c \in Callers :
          rlPc[c] = "waiting" => rlWait[c] \in 0..MINUTE_MS

\* A call came when the window was used up and just MINUTE_MS old: it is
\* suspended with a waitTime of 0
C35_Witness ==
    /\ requestCount = MAX_REQUESTS_PER_MINUTE
    /\ \E c \in Callers : rlPc[c] = "waiting" /\ rlWait[c] = 0

----------------------------------------------------------------------------
(* Properties of the persistent cache *)

\* This step starts a call of operation op on key k
Starts(op, k) ==
    /\ cacheOps' = cacheOps + 1
    /\ \/ lastCall'.op = op /\ lastCall'.key = k
       \/ \E p \in Procs : /\ proc[p].pc = "idle" /\ proc'[p].pc # "idle"
                           /\ proc'[p].op = op /\ proc'[p].key = k

\* This step starts a getOrFetchData on key k that misses and has fetchFn next
StartsFetch(k) ==
    \E p \in Procs : /\ proc[p].pc = "idle"
                     /\ proc'[p].op = "getOrFetch" /\ proc'[p].key = k
                     /\ proc'[p].pc = "fetch"

\* C2: getOrFetchData never persists an empty result: the step that ends a
\* fetch-through whose fetchFn gave an empty sequence leaves every row as it
\* was and returns the empty sequence; the key has no row afterwards, and
\* the next getOrFetchData on the key misses and goes on to fetchFn.
C2_EmptyResultNotCached ==
    /\ [](\A k \in Keys : noData[k] = "empty" => rows[k] = NoRow)
    /\ [][/\ \A p \in Procs :
               (/\ proc[p].op = "getOrFetch" /\ proc[p].pc = "fetched"
                /\ Len(proc[p].fresh) = 0 /\ proc'[p].pc = "idle")
               => /\ rows' = rows
                  /\ lastCall' = Done("getOrFetch", proc[p].key, << >>,
                                      Data(<< >>), FALSE)
          /\ \A k \in Keys :
               (noData[k] = "empty" /\ Starts("getOrFetch", k)) => StartsFetch(k)
        ]_vars

\* C2 witness: after a fetch-through of a key returned the empty sequence,
\* a second one on the key has missed and is about to call fetchFn.
C2_Witness ==
    \E p \in Procs : /\ proc[p].op = "getOrFetch" /\ proc[p].pc = "fetch"
                     /\ noData[proc[p].key] = "empty"

\* setCachedData on an empty table, then getCachedData at once, and
\* getCachedData after the TTL
ReadsBackAndExpires(k, d) ==
    LET tbl == SetCachedDataRows([x \in {k} |-> NoRow], k, d, now)
    IN  /\ SelectRow(tbl, k, now) = [kind |-> "found", data |-> d]
        /\ SelectRow(tbl, k, now + CACHE_TTL[k[2]] + 1).kind = "expired"

\* C3: for every symbol and period, a non-empty sequence given to
\* setCachedData is what a getCachedData right after it returns, and a
\* getCachedData made when more than CACHE_TTL[period] has gone by since the
\* write finds the row expired and returns null.
C3_WriteReadRoundTrip ==
    /\ [](cacheOps = 0 =>
            \A s \in Symbols, per \in TimePeriods, d \in {SeriesA, SeriesB} :
                ReadsBackAndExpires(<<s, per>>, d))
    /\ [][/\ \A k \in Keys :
               (/\ lastCall.op = "set" /\ lastCall.key = k /\ Len(lastCall.arg) > 0
                /\ Starts("get", k))
               => lastCall' = Done("get", k, << >>, Data(lastCall.arg), TRUE)
          /\ \A k \in Keys :
               (/\ writtenAt[k] >= 0 /\ now > writtenAt[k] + CACHE_TTL[k[2]]
                /\ Starts("get", k))
               => \E p \in Procs : proc'[p].op = "get" /\ proc'[p].pc = "delete"
                                    /\ proc'[p].key = k
          /\ \A p \in Procs :
               (proc[p].op = "get" /\ proc[p].pc = "delete" /\ proc'[p].pc = "idle")
               => lastCall' = Done("get", proc[p].key, << >>, Null, FALSE)
        ]_vars

\* C3 witness: a getCachedData has found expired the row that a write made
\* more than the TTL ago.
C3_Witness ==
    \E p \in Procs :
        /\ proc[p].op = "get" /\ proc[p].pc = "delete"
        /\ writtenAt[proc[p].key] >= 0
        /\ now > writtenAt[proc[p].key] + CACHE_TTL[proc[p].key[2]]

\* The row of key k holds a non-empty sequence and has not expired
LiveRow(k) ==
    /\ rows[k] # NoRow
    /\ Len(rows[k].data) > 0
    /\ ParseDate(rows[k].expires_at) >= now

\* C9: a getOrFetchData that finds an unexpired non-empty row returns at
\* once the sequence the row holds, as a hit, without going on to fetchFn
\* and without changing any row.
C9_HitReturnsCached ==
    [][\A k \in Keys :
        (LiveRow(k) /\ Starts("getOrFetch", k))
        => /\ lastCall'.op = "getOrFetch" /\ lastCall'.key = k /\ lastCall'.hit
           /\ lastCall'.result.tag = "data"
           /\ ToJson(lastCall'.result.data) = rows[k].data
           /\ proc' = proc
           /\ rows' = rows
      ]_vars

\* C9 witness: a getOrFetchData has returned a stored sequence as a hit.
C9_Witness ==
    /\ lastCall.op = "getOrFetch" /\ lastCall.hit
    /\ Len(lastCall.result.data) > 0
    /\ rows[lastCall.key] # NoRow

\* C10: when fetchFn throws in a getOrFetchData that missed, the call ends
\* rejected and its step changes no row; the key has no row afterwards, and
\* the next getOrFetchData on the key misses and goes on to fetchFn.
C10_FailedFetchNotCached ==
    /\ [](\A k \in Keys : noData[k] = "failed" => rows[k] = NoRow)
    /\ [][/\ \A p \in Procs :
               GetOrFetchFetch(p, Rejected)
               => /\ rows' = rows
                  /\ proc'[p].pc = "idle"
                  /\ lastCall' = Done("getOrFetch", proc[p].key, << >>,
                                      Rejected, FALSE)
          /\ \A k \in Keys :
               (noData[k] = "failed" /\ Starts("getOrFetch", k)) => StartsFetch(k)
        ]_vars

\* C10 witness: after a fetch-through of a key was rejected, a second one
\* on the key has missed and is about to call fetchFn.
C10_Witness ==
    \E p \in Procs : /\ proc[p].op = "getOrFetch" /\ proc[p].pc = "fetch"
                     /\ noData[proc[p].key] = "failed"

\* C21: the delete a getCachedData makes for the expired row it read never
\* removes a row that is not expired: a row a concurrent call has written
\* meanwhile stays.
C21_DeleteSparesFreshRow ==
    [][\A p \in Procs :
          (proc[p].pc = "delete" /\ proc'[p].pc # "delete")
          => LET k == proc[p].key
             IN  (rows[k] # NoRow /\ ~(ParseDate(rows[k].expires_at) < now))
                     => rows'[k] = rows[k]
      ]_vars

\* C22: a getOrFetchData that misses calls fetchFn once and, when fetchFn
\* gave points, has them in the table when it returns them; a getOrFetchData
\* of the key that starts no later than CACHE_TTL[period] after that store
\* is a hit and does not go on to fetchFn.
C22_StoredThenHit ==
    [][/\ \A p \in Procs :
            (proc[p].op = "getOrFetch" /\ proc[p].pc = "fetched" /\ proc'[p].pc = "idle"
             /\ Len(proc[p].fresh) > 0)
            => /\ rows'[proc[p].key] # NoRow
               /\ FromJson(rows'[proc[p].key].data) = proc[p].fresh
               /\ lastCall' = Done("getOrFetch", proc[p].key, proc[p].fresh,
                                   Data(proc[p].fresh), FALSE)
       /\ \A p \in Procs :
            (proc[p].pc = "fetched") => proc'[p].pc \in {"fetched", "idle"}
       /\ \A k \in Keys :
            (/\ fetchedAt[k] >= 0 /\ now <= fetchedAt[k] + CACHE_TTL[k[2]]
             /\ Starts("getOrFetch", k))
            => /\ lastCall'.op = "getOrFetch" /\ lastCall'.key = k /\ lastCall'.hit
               /\ ~StartsFetch(k)
      ]_vars

----------------------------------------------------------------------------
(* Properties of the stored series *)

\* C4: the series of every period is strictly ascending by timestamp (so it
\* has no two points with the same timestamp) and has at most maxPoints
\* points of the period.
C4_SeriesOrderedAndCapped ==
    \A period \in SeriesPeriods :
        /\ Len(priceHistory[period]) <= PERIOD_CONFIGS[period].maxPoints
        /\ \A i \in 1..(Len(priceHistory[period]) - 1) :
               priceHistory[period][i].timestamp < priceHistory[period][i + 1].timestamp

\* C4 witness: more ticks than the 15min series may hold have been
\* ingested; that series is full, and the full 1d series holds ticks.
C4_Witness ==
    /\ Len(realtimeData) > PERIOD_CONFIGS["15min"].maxPoints
    /\ Len(priceHistory["15min"]) = PERIOD_CONFIGS["15min"].maxPoints
    /\ Len(priceHistory["1d"]) = PERIOD_CONFIGS["1d"].maxPoints
    /\ \E i \in 1..Len(priceHistory["1d"]) :
           priceHistory["1d"][i] = realtimeData[1]

\* C18: after a run of the interval callback, the tick it ingested (the last
\* point of realtimeData, the latest of its bucket) is a point of the series
\* of every period.
C18_TickRepresented ==
    simTicks > 0 =>
        \A period \in SeriesPeriods :
            \E i \in 1..Len(priceHistory[period]) :
                priceHistory[period][i] = realtimeData[Len(realtimeData)]

\* The ticks of data (by index) whose timestamp lies in bucket i of the
\* buckets [start + i*w, start + (i+1)*w), start = t - maxPoints*w
TicksInBucket(data, config, t, i) ==
    LET start == t - config.maxPoints * config.intervalMs
    IN  {j \in 1..Len(data) :
            /\ data[j].timestamp >= start + i * config.intervalMs
            /\ data[j].timestamp < start + (i + 1) * config.intervalMs}

\* The buckets, of those from 0 on, in which a point of data lies: point p
\* lies in bucket (p.timestamp - start) \div w
BucketsOf(data, config, t) ==
    LET start == t - config.maxPoints * config.intervalMs
    IN  {(data[j].timestamp - start) \div config.intervalMs :
            j \in {x \in 1..Len(data) : data[x].timestamp >= start}}

\* C28: what downsampleData gave for the 1h series from the ticks held is,
\* for every bucket i with 0 <= i < maxPoints that holds ticks, exactly one
\* point, the last tick of the bucket as it is, and no point for a bucket
\* without ticks; every point it gave is one of the ticks.
C28_LastTickOfEachBucket ==
    simTicks > 0 =>
        LET config == PERIOD_CONFIGS["1h"]
            out == priceHistory["1h"]
            tickBuckets == BucketsOf(realtimeData, config, now)
            outBuckets == BucketsOf(out, config, now)
        IN  /\ \A r \in 1..Len(out) :
                   \E j \in 1..Len(realtimeData) : out[r] = realtimeData[j]
            /\ \A i \in 0..(config.maxPoints - 1) :
                   IF i \notin tickBuckets
                   THEN i \notin outBuckets
                   ELSE LET given == TicksInBucket(out, config, now, i)
                            ticksOf == TicksInBucket(realtimeData, config, now, i)
                        IN  /\ Cardinality(given) = 1
                            /\ \A r \in given : out[r] = realtimeData[Max(ticksOf)]
            /\ Len(out) = Cardinality({i \in tickBuckets : i <= config.maxPoints - 1})

\* The 1h series holds the last of several ticks of one bucket, and fewer
\* points than there are ticks
C28_Witness ==
    /\ simTicks > 0
    /\ Len(priceHistory["1h"]) >= 2
    /\ \E r \in 1..Len(priceHistory["1h"]), i \in 0..(PERIOD_CONFIGS["1h"].maxPoints - 1) :
          LET bucket == TicksInBucket(realtimeData, PERIOD_CONFIGS["1h"], now, i)
          IN  /\ Cardinality(bucket) >= 2
              /\ priceHistory["1h"][r] = realtimeData[Max(bucket)]
              /\ priceHistory["1h"][r] # realtimeData[Min(bucket)]

\* C29: after any ticks, no two points of the stored series of a period lie
\* in the same bucket of the period, the buckets being those of width
\* intervalMs that the last run of the callback laid out from
\* now - maxPoints * intervalMs.
C29_OnePointPerBucket ==
    \A period \in SeriesPeriods :
        \A i \in BucketsOf(priceHistory[period], PERIOD_CONFIGS[period], now) :
            Cardinality(TicksInBucket(priceHistory[period], PERIOD_CONFIGS[period], now, i)) <= 1

\* C30: a run of the interval callback merges into the series each period
\* had: a point of the series it had is still there, or a point with its
\* timestamp is, or the series is full with maxPoints points that are all
\* more recent; the series never has more than maxPoints points.
C30_MergedIntoExisting ==
    [][simTicks' = simTicks + 1
       => \A period \in SeriesPeriods :
             LET existing == priceHistory[period]
                 merged == priceHistory'[period]
                 maxPoints == PERIOD_CONFIGS[period].maxPoints
             IN  /\ Len(merged) <= maxPoints
                 /\ \A j \in 1..Len(existing) :
                       \/ \E k \in 1..Len(merged) :
                             merged[k].timestamp = existing[j].timestamp
                       \/ /\ Len(merged) = maxPoints
                          /\ existing[j].timestamp < merged[1].timestamp
      ]_vars

\* C31: the tick buffer never holds more than MAX_REALTIME_POINTS ticks and
\* holds them in the order they came; a run of the callback leaves the
\* buffer it had with the new tick at its end, less the oldest entries if
\* that is more than MAX_REALTIME_POINTS, so the newest tick is the last.
C31_BufferCappedNewestLast ==
    /\ [](/\ Len(realtimeData) <= MAX_REALTIME_POINTS
          /\ \A j \in 1..(Len(realtimeData) - 1) :
                realtimeData[j].timestamp <= realtimeData[j + 1].timestamp)
    /\ [][simTicks' = simTicks + 1
          => LET newest == realtimeData'[Len(realtimeData')]
                 pushed == Append(realtimeData, newest)
                 dropped == Len(pushed) - Len(realtimeData')
             IN  /\ newest.timestamp >= now
                 /\ newest.timestamp <= now'
                 /\ newest.price = simPrice'
                 /\ dropped >= 0
                 /\ dropped > 0 => Len(realtimeData') = MAX_REALTIME_POINTS
                 /\ realtimeData' = SubSeq(pushed, dropped + 1, Len(pushed))
         ]_vars

\* The buffer is full and its oldest tick has been trimmed away
C31_Witness ==
    /\ Len(realtimeData) = MAX_REALTIME_POINTS
    /\ realtimeData[1].timestamp > REALTIME_UPDATE_INTERVAL
    /\ realtimeData[Len(realtimeData)].timestamp > SleepMs
    /\ simTicks >= 1

\* C32: while the tick buffer is empty the series of every period is
\* empty: a series holds no point that is not a tick.
C32_EmptyBufferEmptySeries ==
    Len(realtimeData) = 0 =>
        \A period \in SeriesPeriods : Len(priceHistory[period]) = 0

----------------------------------------------------------------------------
(* Properties of the quote refresh loop *)

\* The stocks other than the one of symbol are as they were
OthersKept(symbol) ==
    /\ Len(stocks') = Len(stocks)
    /\ \A j \in 1..Len(stocks) : stocks[j].symbol # symbol => stocks'[j] = stocks[j]

\* C5: in a pass of updateQuotes, a quote call that throws leaves every
\* stock as it was and does not end the pass, which goes on to the next
\* stock of its list; a quote call that succeeds in a mounted pass sets the
\* new price of its stock, also after failures earlier in the pass, and
\* changes no other stock; no step of a pass changes the interval's ticks.
C5_FailureIsolatedPerSymbol ==
    [][lastStep'.kind = "quote" =>
        LET step == lastStep'
            pass == passes[step.pass]
        IN  /\ OthersKept(step.symbol)
            /\ ~step.ok => stocks' = stocks
            /\ (step.ok /\ step.isMounted) =>
                   \A j \in 1..Len(stocks) :
                       stocks[j].symbol = step.symbol => stocks'[j].price = step.price
            /\ step.position < Len(pass.list) =>
                   /\ Len(passes') = Len(passes)
                   /\ passes'[step.pass].list = pass.list
                   /\ passes'[step.pass].position = step.position + 1
            /\ loopTicks' = loopTicks
      ]_vars

\* C5 witness: in one pass the quote call of a stock threw and a later
\* stock of the list has got its new quote.
C5_Witness ==
    /\ lastStep.kind = "quote" /\ lastStep.ok /\ lastStep.isMounted
    /\ lastStep.failedBefore # {}
    /\ \E j \in 1..Len(stocks) :
           stocks[j].symbol = lastStep.symbol /\ stocks[j].price = lastStep.price

\* C6: every run of the quoteInterval callback with stocks tracked starts a
\* pass over the symbols of the stocks tracked at that time.
C6_TickIteratesTracked ==
    [][(loopTicks' = loopTicks + 1 /\ Len(stocks) > 0) =>
        /\ Len(passes') = Len(passes) + 1
        /\ passes'[Len(passes')].list = SymbolsOf(stocks)
      ]_vars

\* C16: once the hook is unmounted (the cleanup has cleared the interval
\* and set isMounted to false) no step changes stocks, loading or error,
\* whatever quote, history or initialization call ends afterwards, and the
\* loop does not run again; and a call of an effect already cleaned up,
\* ending while a later effect runs, changes none of the three either.
C16_NothingAppliedAfterStop ==
    [][/\ ~running => /\ UNCHANGED <<stocks, loading, error>>
                      /\ ~running'
                      /\ loopTicks' = loopTicks
       /\ (lastStep'.kind = "quote" /\ ~lastStep'.isMounted)
              => UNCHANGED <<stocks, loading, error>>
       /\ \A e \in 1..Len(effects) :
              (/\ ~effects[e].isMounted /\ effects[e].initPending
               /\ Len(effects') = Len(effects) /\ ~effects'[e].initPending)
              => UNCHANGED <<stocks, loading, error>>
      ]_vars

\* C16 witness: after the unmount, with stocks loaded, a quote call that
\* was in flight has ended with a quote, and a background history came.
C16_Witness ==
    /\ ~running
    /\ Len(stocks) > 0
    /\ loads > 0
    /\ lastStep.kind = "quote" /\ lastStep.ok /\ ~lastStep.isMounted
    /\ \E j \in 1..Len(stocks) :
           stocks[j].symbol = lastStep.symbol /\ stocks[j].price # lastStep.price

\* C17: when initializeStocks() of the running effect ends, the error is
\* set if and only if no symbol of the batch gave a stock; when at least one
\* did, stocks are the stocks of the symbols that loaded, in the order of
\* the batch, the error stays null and loading ends.
C17_ErrorOnlyIfAllFail ==
    [][(lastStep'.kind = "init" /\ lastStep'.isMounted) =>
        LET batch == effects[lastStep'.pass].selected
            loaded == lastStep'.loaded
        IN  /\ error' # NoError <=> loaded = {}
            /\ ~loading'
            /\ loaded = {} => stocks' = stocks
            /\ loaded # {} =>
                   SymbolsOf(stocks') = SelectSeq(batch, LAMBDA x : x \in loaded)
      ]_vars

\* C17 witness: of a batch of two symbols one loaded and one failed; the
\* one that loaded is the only stock and no error is set.
C17_Witness ==
    /\ lastStep.kind = "init" /\ lastStep.isMounted
    /\ Len(effects[lastStep.pass].selected) = 2
    /\ Cardinality(lastStep.loaded) = 1
    /\ Len(stocks) = 1 /\ stocks[1].symbol \in lastStep.loaded
    /\ error = NoError /\ ~loading

\* C23: within one updateQuotes() the stocks are handled one after another
\* in the order of the list: the k-th call of fetchStockQuote is for the k-th
\* stock, it begins only when the call before it is back and QuoteDelayMs
\* more have passed, and so the quotes are set in the order of the list.
C23_OneAfterAnother ==
    /\ Len(quoteLog) <= Len(quotePass.list)
    /\ \A k \in 1..Len(quoteLog) : quoteLog[k].symbol = quotePass.list[k]
    /\ \A k \in 1..(Len(quoteLog) - 1) :
           /\ quoteLog[k].completed >= quoteLog[k].started
           /\ quoteLog[k + 1].started >= quoteLog[k].completed + QuoteDelayMs
    /\ \A j \in 1..Len(quoteLog), k \in 1..Len(quoteLog) :
           (j < k /\ quoteLog[j].applied /\ quoteLog[k].applied)
           => quoteLog[j].completed < quoteLog[k].completed

\* Both stocks of the list had their quote set, the second after the first
C23_Witness ==
    /\ Len(quoteLog) = 2
    /\ quoteLog[1].applied /\ quoteLog[2].applied
    /\ quoteLog[1].symbol = "GOOGL" /\ quoteLog[2].symbol = "AAPL"
    /\ quoteLog[2].started >= quoteLog[1].completed + QuoteDelayMs

\* The call of fetchStockQuote that a step of updateQuotes() sees come back
QuoteBack == quotePass.phase = "call" /\ quotePass'.phase = "delay"
LastQuote == quoteLog'[Len(quoteLog')]

\* C24: when a refresh sets the quote of a symbol, the previousPrice of that
\* stock becomes the price it held just before, its price the new one, and
\* its priceDirection is "up" iff the new price is greater than that previous
\* price, "down" iff smaller, "neutral" iff equal; every other stock stays
\* as it was.
C24_DirectionFollowsPrice ==
    [][(QuoteBack /\ LastQuote.applied)
       => /\ Len(stocks') = Len(stocks)
          /\ \A j \in 1..Len(stocks) :
                IF stocks[j].symbol = LastQuote.symbol
                THEN /\ stocks'[j].previousPrice = stocks[j].price
                     /\ stocks'[j].price = LastQuote.price
                     /\ stocks'[j].priceDirection = "up"
                           <=> LastQuote.price > stocks[j].price
                     /\ stocks'[j].priceDirection = "down"
                           <=> LastQuote.price < stocks[j].price
                     /\ stocks'[j].priceDirection = "neutral"
                           <=> LastQuote.price = stocks[j].price
                ELSE stocks'[j] = stocks[j]
      ]_vars

\* The quote of GOOGL came back at the price it had; AAPL is as it was loaded
C24_Witness ==
    /\ Len(quoteLog) = 1 /\ quoteLog[1].applied
    /\ Len(stocks) = 2
    /\ stocks[1].previousPrice = FirstPrice /\ stocks[1].price = FirstPrice
    /\ stocks[1].priceDirection = "neutral"
    /\ stocks[2] = NewStock("AAPL")

\* C25: no step of updateQuotes() makes the volume of a stock smaller: a
\* refresh that sets the quote leaves the volume equal or larger, and a call
\* that failed leaves every stock as it was.
C25_VolumeNeverDecreases ==
    [][(quotePass' # quotePass)
       => /\ Len(stocks') = Len(stocks)
          /\ \A j \in 1..Len(stocks) :
                /\ stocks'[j].symbol = stocks[j].symbol
                /\ stocks'[j].volume >= stocks[j].volume
          /\ (QuoteBack /\ ~LastQuote.ok) => stocks' = stocks
      ]_vars

\* A refresh added to the volume of GOOGL, the one of AAPL failed
C25_Witness ==
    /\ Len(quoteLog) = 2
    /\ quoteLog[1].applied /\ quoteLog[1].volumeStep = MaxVolumeStep
    /\ quoteLog[2].completed >= 0 /\ ~quoteLog[2].ok
    /\ Len(stocks) = 2
    /\ stocks[1].volume = FirstVolume + MaxVolumeStep
    /\ stocks[2].volume = FirstVolume

----------------------------------------------------------------------------
(* Properties of the cache without its store *)

\* C11: with no client, or with a store whose queries fail, getCachedData
\* returns null and setCachedData changes no row; neither ever rejects; a
\* getOrFetchData misses, goes on to fetchFn and returns what fetchFn gave,
\* changing no row.
C11_DegradedStoreFallsThrough ==
    [][/\ lastCall'.op \in {"get", "set"} => lastCall'.result.tag # "rejected"
       /\ \A p \in Procs :
            (proc[p].op = "getOrFetch" /\ proc[p].pc = "fetched" /\ proc'[p].pc = "idle")
            => lastCall' = Done("getOrFetch", proc[p].key, proc[p].fresh,
                                Data(proc[p].fresh), FALSE)
       /\ Degraded =>
            /\ rows' = rows
            /\ \A k \in Keys :
                 /\ Starts("get", k) => lastCall' = Done("get", k, << >>, Null, FALSE)
                 /\ Starts("getOrFetch", k) => StartsFetch(k)
      ]_vars

\* C11 witness: with the store out of reach, a getOrFetchData on a key that
\* has a row has returned what fetchFn gave.
C11_Witness ==
    /\ Degraded
    /\ lastCall.op = "getOrFetch" /\ ~lastCall.hit
    /\ lastCall.result = Data(SeriesB)
    /\ rows[lastCall.key] # NoRow
    /\ FromJson(rows[lastCall.key].data) = SeriesA

----------------------------------------------------------------------------
(* More properties of the persistent cache *)

\* The row of key k exists and its expires_at is earlier than now
StaleRow(k) == rows[k] # NoRow /\ ParseDate(rows[k].expires_at) < now

\* C12: getCachedData returns null when the key has no row and when its row
\* has expired; the read that found an expired row ends, in getCachedData
\* and within getOrFetchData, with no row for the key.
C12_MissOnAbsentOrExpired ==
    [][/\ \A k \in Keys :
            /\ (Starts("get", k) /\ rows[k] = NoRow)
                 => lastCall' = Done("get", k, << >>, Null, FALSE)
            /\ (Starts("get", k) /\ StaleRow(k))
                 => \E p \in Procs : /\ proc[p].pc = "idle"
                                      /\ proc'[p].op = "get" /\ proc'[p].pc = "delete"
                                      /\ proc'[p].key = k
            /\ (Starts("getOrFetch", k) /\ StaleRow(k))
                 => \E p \in Procs : /\ proc[p].pc = "idle"
                                      /\ proc'[p].op = "getOrFetch"
                                      /\ proc'[p].pc = "delete" /\ proc'[p].key = k
       /\ \A p \in Procs :
            /\ (proc[p].op = "get" /\ proc[p].pc = "delete" /\ proc'[p].pc = "idle")
                 => /\ lastCall' = Done("get", proc[p].key, << >>, Null, FALSE)
                    /\ rows'[proc[p].key] = NoRow
            /\ (proc[p].op = "getOrFetch" /\ proc[p].pc = "delete"
                                           /\ proc'[p].pc # "delete")
                 => rows'[proc[p].key] = NoRow /\ proc'[p].pc = "fetch"
      ]_vars

\* C12 witness: a getCachedData has returned null for a key whose row was
\* deleted, and the key has no row.
C12_Witness ==
    /\ lastCall.op = "get" /\ lastCall.result = Null
    /\ writtenAt[lastCall.key] = -2
    /\ rows[lastCall.key] = NoRow

\* C13: every stored row has expires_at = updated_at + CACHE_TTL[period],
\* updated_at being the time of the last write of the row.
C13_ExpiryTracksUpdate ==
    \A k \in Keys :
        rows[k] # NoRow =>
            /\ rows[k].updated_at = writtenAt[k]
            /\ ParseDate(rows[k].expires_at) = rows[k].updated_at + CACHE_TTL[k[2]]

\* The periods in order of their horizon, and the TTLs the documentation
\* gives them, in minutes
PeriodOrder == <<"15min", "1h", "1d", "5d", "1m", "3m", "6m", "1y">>
DocumentedTtlMinutes == <<15, 30, 60, 120, 360, 720, 1440, 10080>>

\* C14: the TTL of each period is the documented one, the TTLs do not
\* decrease along the ordered periods, and every row written expires the
\* documented TTL of its period after its last write.
C14_TtlTable ==
    /\ \A i \in 1..Len(PeriodOrder) :
           CACHE_TTL[PeriodOrder[i]] = DocumentedTtlMinutes[i] * MINUTE_MS
    /\ \A i \in 1..(Len(PeriodOrder) - 1) :
           CACHE_TTL[PeriodOrder[i]] <= CACHE_TTL[PeriodOrder[i + 1]]
    /\ \A k \in Keys : \A i \in 1..Len(PeriodOrder) :
           (rows[k] # NoRow /\ k[2] = PeriodOrder[i])
           => ParseDate(rows[k].expires_at) - writtenAt[k]
                  = DocumentedTtlMinutes[i] * MINUTE_MS

\* C14 witness: rows of two periods are stored, the one written later
\* expiring earlier.
C14_Witness ==
    /\ rows[<<"AAPL", "15min">>] # NoRow /\ rows[<<"GOOGL", "1h">>] # NoRow
    /\ writtenAt[<<"AAPL", "15min">>] > writtenAt[<<"GOOGL", "1h">>]
    /\ ParseDate(rows[<<"AAPL", "15min">>].expires_at)
           < ParseDate(rows[<<"GOOGL", "1h">>].expires_at)

\* C15: fetchWithCache(key) returns the stored value without an upstream
\* call if and only if an entry for key exists and now - storedAt is less
\* than the cache duration; otherwise it goes to the rate limiter and the
\* upstream fetch, and a fetch that succeeds stores its result with the time
\* of that moment.  An entry changes only when a fetch completes: no step in
\* the background evicts one.
C15_CallStarted(c, key) ==
    IF cache[key] # NoEntry /\ now - cache[key].timestamp < CACHE_DURATION
    THEN /\ memoLast' = MemoDone("hit", c, key, cache[key].data)
         /\ UNCHANGED <<passVars, tableVars, cache, memoProc, limVars>>
    ELSE /\ memoProc' = [memoProc EXCEPT ![c] = [pc |-> "limit", key |-> key]]
         /\ memoLast'.kind # "hit"
         /\ UNCHANGED cache

C15_FetchEnded(c) ==
    \/ /\ memoLast'.kind = "fetched"
       /\ memoLast'.caller = c
       /\ memoLast'.key = memoProc[c].key
       /\ cache' = [cache EXCEPT ![memoProc[c].key] =
                       [present |-> TRUE, data |-> memoLast'.data, timestamp |-> now]]
    \/ /\ memoLast'.kind = "rejected"
       /\ UNCHANGED cache

FetchStarts(c) == memoProc[c].pc # "fetch" /\ memoProc'[c].pc = "fetch"

\* C26: fetchFn is called only by a call that awaited checkRateLimit, in the
\* step in which that checkRateLimit returned, and every return of
\* checkRateLimit is followed by the one call of fetchFn of its caller: a
\* call whose fetchFn ended is over.
C26_AcquireBeforeFetch ==
    [][/\ \A c \in Callers :
             FetchStarts(c)
             => /\ memoProc[c].pc \in {"limit", "waiting"}
                /\ Len(rlLog') = Len(rlLog) + 1
                /\ rlPc'[c] = "idle"
       /\ Len(rlLog') # Len(rlLog)
          => /\ Len(rlLog') = Len(rlLog) + 1
             /\ Cardinality({c \in Callers : FetchStarts(c)}) = 1
       /\ \A c \in Callers :
             (memoProc[c].pc = "fetch" /\ memoProc'[c].pc # "fetch")
             => /\ memoProc'[c].pc = "idle"
                /\ memoLast'.kind \in {"fetched", "rejected"}
                /\ memoLast'.caller = c
      ]_vars

\* fetchFn of a call is under way after its checkRateLimit had to wait
C26_Witness ==
    \E c \in Callers :
        /\ memoProc[c].pc = "fetch"
        /\ rlPc[c] = "idle"
        /\ Len(rlLog) > 0
        /\ rlLog[Len(rlLog)].waited
        /\ rlLog[Len(rlLog)].granted = now

\* C27: a call that finds no fresh entry goes to its own checkRateLimit and
\* its own fetchFn whatever other calls for the key are under way, and when
\* its fetchFn gives data the entry of the key becomes that data with the
\* time of that moment, whatever entry another call stored meanwhile: the
\* entry left is the one of the call that ended last.
C27_NoInFlightDedup ==
    [][/\ memoOps' = memoOps + 1
          => \/ /\ memoLast'.kind = "hit"
                /\ MemoFresh(cache[memoLast'.key], now)
             \/ \E c \in Callers, key \in MemoKeys :
                   /\ ~MemoFresh(cache[key], now)
                   /\ memoProc[c].pc = "idle"
                   /\ memoProc'[c] = [pc |-> "limit", key |-> key]
       /\ \A c \in Callers :
             /\ memoProc[c].pc = "limit" => memoProc'[c].pc \in {"limit", "waiting", "fetch"}
             /\ memoProc[c].pc = "waiting" => memoProc'[c].pc \in {"waiting", "fetch"}
             /\ (memoProc[c].pc = "fetch" /\ memoProc'[c].pc # "fetch")
                => \/ /\ memoLast'.kind = "fetched"
                      /\ cache'[memoProc[c].key] =
                            [present |-> TRUE, data |-> memoLast'.data, timestamp |-> now]
                   \/ /\ memoLast'.kind = "rejected"
                      /\ cache' = cache
      ]_vars

\* The call of one caller stored its data, fresh now, while fetchFn of the
\* other, which found no entry before that, is still under way for the key
C27_Witness ==
    \E c \in Callers, d \in Callers :
        /\ c # d
        /\ memoProc[c].pc = "fetch"
        /\ memoLast.kind = "fetched" /\ memoLast.caller = d
        /\ memoLast.key = memoProc[c].key
        /\ MemoFresh(cache[memoLast.key], now)
        /\ cache[memoLast.key].data = memoLast.data

----------------------------------------------------------------------------
(* Properties of the rows of the cache table *)

\* C19: whatever writes, deletes, sweeps and fetch-throughs were made, in
\* whatever interleaving, the table holds at most one row for each symbol
\* and period; a write to a key that has a row leaves the key with that one
\* row, now holding what was written, and adds no row to the table.
C19_OneRowPerKey ==
    /\ [](\A k \in Keys : Cardinality(RowsOf(table, k)) <= 1)
    /\ [][(tableLast'.op = "set" /\ tableLast'.replaced) =>
            /\ Cardinality(table') = Cardinality(table)
            /\ {r.id : r \in RowsOf(table', tableLast'.key)}
                   = {r.id : r \in RowsOf(table, tableLast'.key)}
            /\ \A r \in RowsOf(table', tableLast'.key) :
                   ParseDate(r.expires_at) = now + CACHE_TTL[r.key[2]]
          ]_vars

\* C19 witness: two calls have written one key (two writes, or a write and
\* the store of a fetch-through that had missed); the second found the row
\* of the first and replaced it, and one id was ever given.
C19_Witness ==
    /\ tableLast.op = "set" /\ tableLast.replaced
    /\ Cardinality(RowsOf(table, tableLast.key)) = 1
    /\ tableOps = 2
    /\ \A p \in Procs : tableProc[p].pc = "idle"
    /\ rowsIssued = 1


\* The call of deleteCachedData, clearSymbolCache or clearExpiredCache that
\* a step makes
Removes(op) == tableOps' = tableOps + 1 /\ tableLast'.op = op

\* C33: deleteCachedData(symbol, period) leaves no row of that key, expired
\* or not, and every row of another key as it was; clearSymbolCache(symbol)
\* leaves no row of that symbol and every row of another symbol as it was.
C33_DeleteRemovesOnlyItsKey ==
    [][/\ Removes("delete")
          => table' = {r \in table : r.key # tableLast'.key}
       /\ Removes("clearSymbol")
          => table' = {r \in table : r.key[1] # tableLast'.key[1]}
      ]_vars

\* Two rows were written and, no time gone by, deleteCachedData removed the
\* one of its key; the row of the other key is there
C33_Witness ==
    /\ tableLast.op = "delete"
    /\ now = 0
    /\ tableOps = 3 /\ rowsIssued = 2
    /\ Cardinality(table) = 1
    /\ \A r \in table : r.key # tableLast.key

\* C34: clearExpiredCache leaves no row whose expires_at is earlier than now
\* and leaves every row whose expires_at is now or later as it was.
C34_SweepRemovesExactlyExpired ==
    [][Removes("clearExpired")
       => /\ table' \subseteq table
          /\ \A r \in table :
                IF ParseDate(r.expires_at) < now THEN r \notin table' ELSE r \in table'
      ]_vars

\* Of two rows written the sweep removed the expired one and left the other
C34_Witness ==
    /\ tableLast.op = "clearExpired"
    /\ tableOps = 3 /\ rowsIssued = 2
    /\ now > CACHE_TTL["15min"]
    /\ Cardinality(table) = 1
    /\ \A r \in table : ~(ParseDate(r.expires_at) < now)

\* C36: a request that ends in an error (fetchFn threw, or the response
\* lacks the expected data) creates or refreshes no entry of the in-memory
\* cache for its key, and no request is answered from the cache with a
\* response that makes it end in an error.
C36_FailedResponseNeverStored ==
    [][/\ (/\ memoLast'.kind \in {"fetched", "rejected"}
           /\ (memoLast'.kind = "rejected" \/ RequestEnds(memoLast'.data) = "error"))
          => cache'[memoLast'.key] = cache[memoLast'.key]
       /\ memoLast'.kind = "hit" => RequestEnds(memoLast'.data) # "error"
      ]_vars

\* C37: at most one updateQuotes() is in progress at any time: a callback of
\* quoteInterval starts no pass while an earlier pass still iterates its
\* stocks.
C37_OnePassAtATime == Len(passes) <= 1

\* The entry of symbol in a stock list has the series of period
HasHistory(list, symbol, period) ==
    \E j \in 1..Len(list) : list[j].symbol = symbol /\ period \in list[j].priceHistory

\* C38: a non-empty series the background load of a mounted effect fetched
\* for a symbol is in the priceHistory of that symbol once initializeStocks
\* of the effect has published the symbol, also when the series came just
\* before the publication (another symbol of the effect was still loading).
C38_BackgroundSeriesKept ==
    [][\A e \in 1..Len(effects), period \in BackgroundPeriods :
          (/\ lastStep.kind = "history" /\ lastStep.pass = e
           /\ Len(effects[e].selected) >= 2
           /\ effects[e].isMounted /\ effects[e].initPending
           /\ ~effects'[e].initPending
           /\ lastStep'.kind = "init" /\ lastStep.symbol \in lastStep'.loaded)
          => HasHistory(stocks', lastStep.symbol, period)
      ]_vars

\* The step in which updateQuotes() calls fetchStockQuote
QuoteRequested ==
    /\ quoteLog' # quoteLog
    /\ Len(quoteLog') > 0
    /\ quoteLog'[Len(quoteLog')].completed = -1

\* C39: after the cleanup of the hook no quote is requested any more: a
\* pass under way at the stop lets the call in flight return and calls
\* fetchStockQuote for none of the stocks that remain.
C39_NoCallAfterStop ==
    [][QuoteRequested => running]_vars

\* C40: setCachedData with an empty sequence changes no row: it creates
\* none, and a row of its key keeps its id, data and expires_at.
C40_EmptyWriteIsNoOp ==
    [][(tableOps' = tableOps + 1 /\ tableLast'.op = "skip")
          => /\ table' = table
             /\ rowsIssued' = rowsIssued
      ]_vars

\* C40 witness: setCachedData was called with an empty sequence for a key
\* whose row holds points, and the row is there.
C40_Witness ==
    /\ tableLast.op = "skip"
    /\ tableOps = 2
    /\ Cardinality(RowsOf(table, tableLast.key)) = 1
    /\ \A r \in RowsOf(table, tableLast.key) : Len(FromJson(r.data)) > 0

============================================================================
